---- MODULE Spec2Model ----
(***************************************************************************)
(* isuumo web application (webapp/go/main.go): the chair store, the        *)
(* low-priced chair snapshot (lowPricedChair, guarded by                   *)
(* lowPricedChairMutex) and the handlers getLowPricedChair, postChair and  *)
(* buyChair, each modelled as a goroutine that steps from one access of    *)
(* the shared state (store, snapshot, mutex) to the next.                  *)
(*                                                                         *)
(* The MySQL store is modelled by its committed rows: a transaction's      *)
(* UPDATE becomes visible at COMMIT, SELECT ... FOR UPDATE takes the row   *)
(* lock until COMMIT or ROLLBACK, and any statement may fail.              *)
(* A panic in a handler is recovered by echo's middleware.Recover(): the   *)
(* request is answered 500 and locks taken without defer stay taken.       *)
(***************************************************************************)
EXTENDS Integers, Sequences, FiniteSets, TLC

\* ---- program constants -------------------------------------------------
Limit == 20

\* ---- bounds of the model ------------------------------------------------
NumProcs == 2
MaxReqs == 3
MaxStock == 2
MaxEstates == 3
MaxVertices == 3
MaxMatches == 60

Procs == 1..NumProcs
\* the chair ids, prices and stocks that requests and rows are drawn from
ChairIds == {1, 2}
Prices == {1, 2}
Stocks == 0..MaxStock
ObjIds == 1..(NumProcs + 1)
nil == 0
NoRow == [present |-> FALSE, price |-> 0, stock |-> 0]
\* the chairs in the store when the program starts: one chair, at
\* the lowest price
SeedIds == {1}
SeedPrices == {1}
\* the stock of the chairs a postChair request brings
PostStocks == {1}

VARIABLES
  chair,            \* table chair: id -> row (present, price, stock), committed
  rowLock,          \* id -> the request whose transaction locks the row, or 0
  lowPricedChair,   \* the published snapshot: an object of the heap, or nil
  snapObj,          \* heap of ChairListResponse objects: object -> Chairs
  rwReaders,        \* lowPricedChairMutex: shared holders inside a request
  rwLost,           \* lowPricedChairMutex: a shared holder ended without RUnlock
  rwPending,        \* lowPricedChairMutex: a Lock() call waits for the readers
  rwHeld,           \* lowPricedChairMutex: held exclusively
  pc,               \* position of each goroutine
  op,               \* the request a goroutine runs: [name, id]
  chairs,           \* getLowPricedChair's local slice (an object), or nil
  target,           \* buyChair's local index into the snapshot, -1 if none
  currentPrice,     \* postChair's local: price of the last row
  holds,            \* what a goroutine holds of lowPricedChairMutex
  nreq,             \* requests started so far
  done,             \* the request that ended in the last step, if one did
  initStock,        \* history: stock a chair was inserted with
  commits,          \* history: purchases of a chair that committed
  tally,            \* history: answers of the buyChair requests on a chair
  hist,             \* history of the request a goroutine runs
  lastGet,          \* history: snapshot last returned, no post/buy step since
  estate,           \* table estate: id -> row (present, latitude, longitude,
                    \* popularity, features: the text split at its commas)
  estateFeature,    \* table estate_feature: the rows <<estate_id, feature_id>>
  cachedEstates,    \* the map cachedEstates: id -> Estate, or no entry
  npc,              \* position of each goroutine in an estate handler
  nz,               \* the locals of searchEstateNazotte and of searchEstates
  ndone,            \* the estate request that ended in the last step, if one did
  enreq,            \* estate requests started so far
  call              \* the last call of a function of the program: inputs and result

storeVars == <<chair, rowLock>>
cacheVars == <<lowPricedChair, snapObj>>
mutexVars == <<rwReaders, rwLost, rwPending, rwHeld>>
localVars == <<chairs, target, currentPrice>>
\* the state of the chair handlers, of the estate handlers, of the functions
chairVars == <<chair, rowLock, lowPricedChair, snapObj, rwReaders, rwLost, rwPending, rwHeld,
               pc, op, chairs, target, currentPrice, holds, nreq, done,
               initStock, commits, tally, hist, lastGet>>
estateVars == <<estate, estateFeature, cachedEstates, npc, nz, ndone, enreq>>
vars == <<chairVars, estateVars, call>>

\* no snapshot: lowPricedChair is nil, or nothing was returned
None == [present |-> FALSE, chairs |-> <<>>]
NoOp == [name |-> "none", id |-> 0]
NoTally == [ok |-> 0, notFound |-> 0, storeFailure |-> 0, panic |-> 0]
\* committed: the request's store mutation is committed; alone: no other
\* goroutine was in a request then or has run since; before: the snapshot then;
\* queried: the request has queried the store; prior: lastGet when it started
NoHist == [committed |-> FALSE, alone |-> FALSE, before |-> None,
           queried |-> FALSE, prior |-> None]
NoDone == [name |-> "none"]

\* ---- the store ----------------------------------------------------------
Row(c, i) == [id |-> i, price |-> c[i].price, stock |-> c[i].stock]

Available(c) == {i \in DOMAIN c : c[i].present /\ c[i].stock > 0}

\* ORDER BY price ASC, id ASC
Cheaper(c, i, j) ==
  \/ c[i].price < c[j].price
  \/ c[i].price = c[j].price /\ i < j

RECURSIVE OrderByPrice(_, _)
OrderByPrice(c, S) ==
  IF S = {} THEN <<>>
  ELSE LET m == CHOOSE i \in S : \A j \in S \ {i} : Cheaper(c, i, j)
       IN <<Row(c, m)>> \o OrderByPrice(c, S \ {m})

\* SELECT * FROM chair WHERE stock > 0 ORDER BY price ASC, id ASC LIMIT ?
SelectLowPriced(c) ==
  LET all == OrderByPrice(c, Available(c))
  IN IF Len(all) > Limit THEN SubSeq(all, 1, Limit) ELSE all

\* the SELECT without its condition on the stock
SelectAnyStock(c, id) == c[id].present

\* SELECT * FROM chair WHERE id = ? AND stock > 0 FOR UPDATE finds a row
SelectForUpdate(c, id) == c[id].present /\ c[id].stock > 0

\* ---- the heap of snapshot objects ----------------------------------------
Live(lp, ch) == {lp} \cup {ch[p] : p \in Procs}

\* an object nothing refers to any more is garbage: its contents are dropped
Collect(heap, lp, ch) ==
  [o \in ObjIds |-> IF o \in Live(lp, ch) THEN heap[o] ELSE <<>>]

NewObj == CHOOSE o \in ObjIds : o \notin Live(lowPricedChair, chairs)

\* the published snapshot as a value, None when lowPricedChair is nil
Snapshot ==
  IF lowPricedChair = nil THEN None
  ELSE [present |-> TRUE, chairs |-> snapObj[lowPricedChair]]

\* lowPricedChair.Chairs where lowPricedChair is not nil
Chairs == IF lowPricedChair = nil THEN <<>> ELSE snapObj[lowPricedChair]

\* ---- sync.RWMutex ---------------------------------------------------------
\* RLock() enters unless a writer holds the mutex or waits for it
CanRLock == ~rwHeld /\ ~rwPending
\* Lock() excludes the other writers, then waits for the readers that are in
CanLock == ~rwHeld /\ ~rwPending
\* the mutex's reader count is zero: a holder that ended without RUnlock keeps
\* the count above zero for ever
NoReaders == rwReaders = 0 /\ ~rwLost

\* ---- bookkeeping ------------------------------------------------------------
Quiet(p) == \A q \in Procs \ {p} : pc[q] = "idle"

\* goroutine p takes a step: no other goroutine's request is alone any more, and
\* a step of postChair or buyChair (mut) outdates the snapshots returned so far
Others(p, mut) ==
  [q \in Procs |->
     IF q = p THEN hist[q]
     ELSE [hist[q] EXCEPT !.alone = FALSE, !.prior = IF mut THEN None ELSE @]]

\* a step of getLowPricedChair by p that does not end the request
GetStep(p) ==
  /\ hist' = Others(p, FALSE)
  /\ done' = NoDone
  /\ UNCHANGED lastGet

\* a step of postChair or buyChair by p that does not end the request
MutStep(p) ==
  /\ hist' = Others(p, TRUE)
  /\ done' = NoDone
  /\ lastGet' = None

\* an idle goroutine takes up a request
Start(p) ==
  /\ pc[p] = "idle"
  /\ nreq < MaxReqs
  /\ nreq' = nreq + 1

\* the request of p ends with answer a and response body b; h is its history
Finish(p, name, id, a, b, h, mut) ==
  /\ pc' = [pc EXCEPT ![p] = "idle"]
  /\ op' = [op EXCEPT ![p] = NoOp]
  /\ holds' = [holds EXCEPT ![p] = "none"]
  /\ hist' = [Others(p, mut) EXCEPT ![p] = NoHist]
  /\ done' = [name |-> name, id |-> id, answer |-> a, committed |-> h.committed,
              alone |-> h.alone, before |-> h.before, queried |-> h.queried,
              prior |-> h.prior, price |-> currentPrice[p], body |-> b]

\* the buyChair requests answered on a chair that is in the store
Count(i, a) ==
  IF ~chair[i].present THEN tally
  ELSE [tally EXCEPT ![i] = [@ EXCEPT ![a] = @ + 1]]

\* ---- searchEstateNazotte: the functions ------------------------------------------
NazotteLimit == 50

Coordinate(la, lo) == [latitude |-> la, longitude |-> lo]

\* the comparison of getBoundingBox that keeps a bound
LowerKept(a, b) == a

\* if boundingBox.TopLeftCorner.X > coordinate.X { boundingBox.TopLeftCorner.X = coordinate.X }
Lower(a, b) == IF a > b THEN b ELSE a

\* if boundingBox.BottomRightCorner.X < coordinate.X { ... = coordinate.X }
Upper(a, b) == IF a < b THEN b ELSE a

\* for _, coordinate := range coordinates { ... }, from the k-th coordinate on
RECURSIVE BoxLoop(_, _, _)
BoxLoop(coordinates, k, boundingBox) ==
  IF k > Len(coordinates) THEN boundingBox
  ELSE LET co == coordinates[k]
           tl == boundingBox.TopLeftCorner
           br == boundingBox.BottomRightCorner
       IN BoxLoop(coordinates, k + 1,
                  [TopLeftCorner |->
                     Coordinate(Lower(tl.latitude, co.latitude),
                                Lower(tl.longitude, co.longitude)),
                   BottomRightCorner |->
                     Coordinate(Upper(br.latitude, co.latitude),
                                Upper(br.longitude, co.longitude))])

\* func (cs Coordinates) getBoundingBox() BoundingBox, of a non-empty cs
getBoundingBox(coordinates) ==
  BoxLoop(coordinates, 1,
          [TopLeftCorner |-> coordinates[1], BottomRightCorner |-> coordinates[1]])

\* the edge from a to b crosses the ray that leaves point towards greater
\* latitudes: its ends lie on either side of the point's longitude, and at that
\* longitude the edge is at a greater latitude than the point
Crosses(point, a, b) ==
  /\ (a.longitude > point.longitude) # (b.longitude > point.longitude)
  /\ LET d == b.longitude - a.longitude
         l == (point.latitude - a.latitude) * d
         r == (b.latitude - a.latitude) * (point.longitude - a.longitude)
     IN IF d > 0 THEN l < r ELSE l > r

\* poly.Contains(point): the crossing-number test, an odd number of edges
\* crossed; the edges join each vertex to the next and the last to the first
Contains(poly, point) ==
  Cardinality({k \in 1..Len(poly) :
                 Crosses(point, poly[k], poly[IF k = Len(poly) THEN 1 ELSE k + 1])})
    % 2 = 1

\* the polygon without its last vertex
PolyPointsShort(coordinates) ==
  [k \in 1..(Len(coordinates) - 1) |-> coordinates[k]]

\* for _, co := range coordinates.Coordinates { polyPoints = append(polyPoints,
\* geo.NewPoint(co.Latitude, co.Longitude)) }
PolyPoints(coordinates) ==
  [k \in 1..Len(coordinates) |->
     Coordinate(coordinates[k].latitude, coordinates[k].longitude)]

\* the loop that keeps the id of every candidate
InBoundingBoxIDs(coordinates, estatesInBoundingBox) ==
  [k \in 1..Len(estatesInBoundingBox) |-> estatesInBoundingBox[k].id]

\* for _, estate := range estatesInBoundingBox { if poly.Contains(...) { append id } }
RECURSIVE InPolygonIDs(_, _)
InPolygonIDs(coordinates, estatesInBoundingBox) ==
  IF Len(estatesInBoundingBox) = 0 THEN <<>>
  ELSE LET e == Head(estatesInBoundingBox)
           rest == InPolygonIDs(coordinates, Tail(estatesInBoundingBox))
       IN IF Contains(PolyPoints(coordinates), Coordinate(e.latitude, e.longitude))
          THEN <<e.id>> \o rest ELSE rest

\* the ranking that keeps the order of the ids and ignores the popularity
RanksById(a, b) == a.id < b.id

\* the less function of sort.Slice: popularity descending, then id ascending
Ranks(a, b) ==
  IF a.popularity = b.popularity THEN a.id < b.id
  ELSE a.popularity > b.popularity

\* sort.Slice(estatesInPolygon, ...) of entries with distinct ids
RECURSIVE SortSlice(_)
SortSlice(es) ==
  IF Len(es) = 0 THEN <<>>
  ELSE LET k == CHOOSE k \in 1..Len(es) :
                  \A l \in 1..Len(es) : ~Ranks(es[l], es[k])
       IN <<es[k]>> \o SortSlice([l \in 1..(Len(es) - 1) |->
                                     IF l < k THEN es[l] ELSE es[l + 1]])

\* the response that keeps the order in which the estates were collected
RespondInOrder(estatesInPolygon) ==
  LET Estates == IF Len(estatesInPolygon) > NazotteLimit
                 THEN SubSeq(estatesInPolygon, 1, NazotteLimit) ELSE estatesInPolygon
  IN [Estates |-> Estates, Count |-> Len(Estates)]

\* sort; re.Estates = estatesInPolygon[:NazotteLimit] if longer;
\* re.Count = int64(len(re.Estates))
Respond(estatesInPolygon) ==
  LET sorted == SortSlice(estatesInPolygon)
      Estates == IF Len(sorted) > NazotteLimit
                 THEN SubSeq(sorted, 1, NazotteLimit) ELSE sorted
  IN [Estates |-> Estates, Count |-> Len(Estates)]

\* ---- the estate store and the functions, at rest ------------------------------
\* the estate ids, the coordinates (latitude or longitude) and the popularities
\* that rows and requests are drawn from
EstateIds == 1..MaxEstates
Coords == {0, 5, 10, 20}
Pops == {1, 2}
NoEstate == [present |-> FALSE, id |-> 0, latitude |-> 0, longitude |-> 0,
             popularity |-> 0, features |-> <<>>]
NoCall == [fn |-> "none"]
\* the locals of searchEstateNazotte and of searchEstates before the request
NoLocals == [coordinates |-> <<>>, estatesInPolygonIDs |-> <<>>,
             estatesInPolygon |-> <<>>, missingIDs |-> <<>>, missingEstates |-> <<>>,
             fetches |-> <<>>, atBox |-> <<>>, atLookup |-> {},
             features |-> <<>>, page |-> 0, perPage |-> 0, Count |-> 0,
             holds |-> "none", queries |-> 0, request |-> <<>>]

\* no estate is stored and no estate request has run
EstateIdle ==
  /\ estate = [i \in EstateIds |-> NoEstate]
  /\ estateFeature = {}
  /\ cachedEstates = [i \in EstateIds |-> NoEstate]
  /\ npc = [p \in Procs |-> "idle"]
  /\ nz = [p \in Procs |-> NoLocals]
  /\ ndone = NoDone
  /\ enreq = 0

Init ==
  /\ chair \in [ChairIds -> {NoRow} \cup [present : {TRUE}, price : SeedPrices, stock : Stocks]]
  /\ \A i \in ChairIds : chair[i].present <=> i \in SeedIds
  /\ rowLock = [i \in ChairIds |-> 0]
  /\ lowPricedChair = nil
  /\ snapObj = [o \in ObjIds |-> <<>>]
  /\ rwReaders = 0
  /\ rwLost = FALSE
  /\ rwPending = FALSE
  /\ rwHeld = FALSE
  /\ pc = [p \in Procs |-> "idle"]
  /\ op = [p \in Procs |-> NoOp]
  /\ chairs = [p \in Procs |-> nil]
  /\ target = [p \in Procs |-> -1]
  /\ currentPrice = [p \in Procs |-> 0]
  /\ holds = [p \in Procs |-> "none"]
  /\ nreq = 0
  /\ done = NoDone
  /\ initStock = [i \in ChairIds |-> chair[i].stock]
  /\ commits = [i \in ChairIds |-> 0]
  /\ tally = [i \in ChairIds |-> NoTally]
  /\ hist = [p \in Procs |-> NoHist]
  /\ lastGet = None
  /\ EstateIdle
  /\ call = NoCall

\* no chair is stored and no chair request has run
ChairIdle ==
  /\ chair = [i \in ChairIds |-> NoRow]
  /\ rowLock = [i \in ChairIds |-> 0]
  /\ lowPricedChair = nil
  /\ snapObj = [o \in ObjIds |-> <<>>]
  /\ rwReaders = 0
  /\ rwLost = FALSE
  /\ rwPending = FALSE
  /\ rwHeld = FALSE
  /\ pc = [p \in Procs |-> "idle"]
  /\ op = [p \in Procs |-> NoOp]
  /\ chairs = [p \in Procs |-> nil]
  /\ target = [p \in Procs |-> -1]
  /\ currentPrice = [p \in Procs |-> 0]
  /\ holds = [p \in Procs |-> "none"]
  /\ nreq = 0
  /\ done = NoDone
  /\ initStock = [i \in ChairIds |-> 0]
  /\ commits = [i \in ChairIds |-> 0]
  /\ tally = [i \in ChairIds |-> NoTally]
  /\ hist = [p \in Procs |-> NoHist]
  /\ lastGet = None

\* ---- getLowPricedChair ------------------------------------------------------
\* lowPricedChairMutex.RLock(); defer lowPricedChairMutex.RUnlock();
\* if lowPricedChair == nil { ... }: the snapshot is absent
GetRLock(p) ==
  /\ Start(p)
  /\ CanRLock
  /\ lowPricedChair = nil
  /\ rwReaders' = rwReaders + 1
  /\ holds' = [holds EXCEPT ![p] = "shared"]
  /\ op' = [op EXCEPT ![p] = [name |-> "get", id |-> 0]]
  /\ pc' = [pc EXCEPT ![p] = "get_select"]
  /\ hist' = [Others(p, FALSE) EXCEPT ![p].prior = lastGet]
  /\ done' = NoDone
  /\ UNCHANGED <<storeVars, cacheVars, rwLost, rwPending, rwHeld, localVars,
                 initStock, commits, tally, lastGet>>
  /\ UNCHANGED <<estateVars, call>>

\* the same statements when the snapshot is present, up to
\* return JSON(c, http.StatusOK, lowPricedChair) and the deferred RUnlock.
\* The request reads the snapshot and writes nothing, so it is one step, and
\* it leaves the program as it found it: it is not counted in nreq.
GetCached(p) ==
  /\ pc[p] = "idle"
  /\ CanRLock
  /\ lowPricedChair # nil
  /\ Finish(p, "get", 0, "OK", Snapshot, [NoHist EXCEPT !.prior = lastGet], FALSE)
  /\ lastGet' = Snapshot
  /\ UNCHANGED <<nreq, storeVars, cacheVars, mutexVars, localVars,
                 initStock, commits, tally>>
  /\ UNCHANGED <<estateVars, call>>

\* err := db.Select(&chairs, query, Limit), the query succeeds
GetSelect(p) ==
  /\ pc[p] = "get_select"
  /\ chairs' = [chairs EXCEPT ![p] = NewObj]
  /\ snapObj' = [snapObj EXCEPT ![NewObj] = SelectLowPriced(chair)]
  /\ pc' = [pc EXCEPT ![p] = "get_publish"]
  /\ hist' = [Others(p, FALSE) EXCEPT ![p].queried = TRUE]
  /\ done' = NoDone
  /\ UNCHANGED <<nreq, storeVars, lowPricedChair, mutexVars, op, target, currentPrice,
                 holds, initStock, commits, tally, lastGet>>
  /\ UNCHANGED <<estateVars, call>>

\* the query fails: 500, and the deferred RUnlock runs
GetSelectFail(p) ==
  /\ pc[p] = "get_select"
  /\ rwReaders' = rwReaders - 1
  /\ Finish(p, "get", 0, "StoreFailure", None, [hist[p] EXCEPT !.queried = TRUE], FALSE)
  /\ UNCHANGED <<nreq, storeVars, cacheVars, rwLost, rwPending, rwHeld, localVars,
                 initStock, commits, tally, lastGet>>
  /\ UNCHANGED <<estateVars, call>>

\* lowPricedChair = &ChairListResponse{Chairs: chairs}
GetPublish(p) ==
  /\ pc[p] = "get_publish"
  /\ lowPricedChair' = chairs[p]
  /\ chairs' = [chairs EXCEPT ![p] = nil]
  /\ snapObj' = Collect(snapObj, lowPricedChair', chairs')
  /\ pc' = [pc EXCEPT ![p] = "get_return"]
  /\ GetStep(p)
  /\ UNCHANGED <<nreq, storeVars, mutexVars, op, target, currentPrice, holds,
                 initStock, commits, tally>>
  /\ UNCHANGED <<estateVars, call>>

\* return JSON(c, http.StatusOK, lowPricedChair), then the deferred RUnlock
GetReturn(p) ==
  /\ pc[p] = "get_return"
  /\ rwReaders' = rwReaders - 1
  /\ Finish(p, "get", 0, "OK", Snapshot, hist[p], FALSE)
  /\ lastGet' = Snapshot
  /\ UNCHANGED <<nreq, storeVars, cacheVars, rwLost, rwPending, rwHeld, localVars,
                 initStock, commits, tally>>
  /\ UNCHANGED <<estateVars, call>>

\* ---- postChair ----------------------------------------------------------------
\* the records of a request: rows (id, price, stock)
PostRow == [id : ChairIds, price : Prices, stock : PostStocks]
PostRows == {<<r>> : r \in PostRow}

RowIds(rows) == {rows[k].id : k \in 1..Len(rows)}
RowOf(rows, i) == CHOOSE k \in 1..Len(rows) : rows[k].id = i

\* the primary key admits the rows: no id twice, none in the table
Insertable(rows) ==
  /\ \A k, l \in 1..Len(rows) : rows[k].id = rows[l].id => k = l
  /\ \A k \in 1..Len(rows) : ~chair[rows[k].id].present

\* INSERT INTO chair(...) VALUES (...), (...): one statement, all rows or none;
\* currentPrice is the price of the last record
PostInsert(p, rows) ==
  /\ Start(p)
  /\ Insertable(rows)
  /\ chair' = [i \in DOMAIN chair |->
                 IF i \in RowIds(rows)
                 THEN [present |-> TRUE, price |-> rows[RowOf(rows, i)].price,
                       stock |-> rows[RowOf(rows, i)].stock]
                 ELSE chair[i]]
  /\ initStock' = [i \in DOMAIN initStock |->
                     IF i \in RowIds(rows) THEN rows[RowOf(rows, i)].stock
                     ELSE initStock[i]]
  /\ currentPrice' = [currentPrice EXCEPT ![p] = rows[Len(rows)].price]
  /\ op' = [op EXCEPT ![p] = [name |-> "post", id |-> 0]]
  /\ pc' = [pc EXCEPT ![p] = "post_read"]
  /\ hist' = [Others(p, TRUE) EXCEPT
                ![p] = [NoHist EXCEPT !.committed = TRUE, !.alone = Quiet(p),
                                      !.before = Snapshot]]
  /\ done' = NoDone
  /\ lastGet' = None
  /\ UNCHANGED <<rowLock, cacheVars, mutexVars, chairs, target, holds, commits, tally>>
  /\ UNCHANGED <<estateVars, call>>

\* the INSERT fails (a duplicate id, or the store): 500, nothing is inserted
PostInsertFail(p) ==
  /\ Start(p)
  /\ Finish(p, "post", 0, "StoreFailure", None, NoHist, TRUE)
  /\ lastGet' = None
  /\ UNCHANGED <<storeVars, cacheVars, mutexVars, localVars, initStock, commits, tally>>
  /\ UNCHANGED <<estateVars, call>>

\* currentButtom := lowPricedChair.Chairs[len(lowPricedChair.Chairs)-1].Price
currentButtom == Chairs[Len(Chairs)].price

\* lowPricedChairMutex.RLock(); currentButtom := ...;
\* lowPricedChairMutex.RUnlock(); if currentPrice <= currentButtom { ... }
\* return c.NoContent(http.StatusCreated).
\* The shared section is one step: no writer acts while it lasts, and the one
\* write a reader makes (GetPublish) falls before or after the read.
PostRead(p) ==
  /\ pc[p] = "post_read"
  /\ CanRLock
  /\ lowPricedChair # nil
  /\ Len(Chairs) > 0
  /\ IF currentPrice[p] <= currentButtom
     THEN /\ pc' = [pc EXCEPT ![p] = "post_lock"]
          /\ MutStep(p)
          /\ UNCHANGED <<op, currentPrice, holds>>
     ELSE /\ Finish(p, "post", 0, "Created", None, hist[p], TRUE)
          /\ lastGet' = None
          /\ currentPrice' = [currentPrice EXCEPT ![p] = 0]
  /\ UNCHANGED <<nreq, storeVars, cacheVars, mutexVars, chairs, target,
                 initStock, commits, tally>>
  /\ UNCHANGED <<estateVars, call>>

\* the same statements when lowPricedChair is nil or its Chairs are empty: the
\* handler panics, the request is answered 500 and RUnlock is never called
PostReadPanic(p) ==
  /\ pc[p] = "post_read"
  /\ CanRLock
  /\ lowPricedChair = nil \/ Len(Chairs) = 0
  /\ rwLost' = TRUE
  /\ Finish(p, "post", 0, "Panic", None, hist[p], TRUE)
  /\ lastGet' = None
  /\ currentPrice' = [currentPrice EXCEPT ![p] = 0]
  /\ UNCHANGED <<nreq, storeVars, cacheVars, rwReaders, rwPending, rwHeld, chairs,
                 target, initStock, commits, tally>>
  /\ UNCHANGED <<estateVars, call>>

\* lowPricedChairMutex.Lock(): the writer enters at once when no reader is in,
\* else it announces itself to the readers and waits
PostLock(p) ==
  /\ pc[p] = "post_lock"
  /\ CanLock
  /\ IF NoReaders
     THEN /\ rwHeld' = TRUE
          /\ holds' = [holds EXCEPT ![p] = "exclusive"]
          /\ pc' = [pc EXCEPT ![p] = "post_nil"]
          /\ UNCHANGED rwPending
     ELSE /\ rwPending' = TRUE
          /\ pc' = [pc EXCEPT ![p] = "post_lockwait"]
          /\ UNCHANGED <<rwHeld, holds>>
  /\ MutStep(p)
  /\ UNCHANGED <<nreq, storeVars, cacheVars, rwReaders, rwLost, op, localVars,
                 initStock, commits, tally>>
  /\ UNCHANGED <<estateVars, call>>

\* Lock() returns once the readers have left
PostLockWait(p) ==
  /\ pc[p] = "post_lockwait"
  /\ NoReaders
  /\ rwPending' = FALSE
  /\ rwHeld' = TRUE
  /\ holds' = [holds EXCEPT ![p] = "exclusive"]
  /\ pc' = [pc EXCEPT ![p] = "post_nil"]
  /\ MutStep(p)
  /\ UNCHANGED <<nreq, storeVars, cacheVars, rwReaders, rwLost, op, localVars,
                 initStock, commits, tally>>
  /\ UNCHANGED <<estateVars, call>>

\* lowPricedChair = nil; lowPricedChairMutex.Unlock();
\* return c.NoContent(http.StatusCreated)
PostInvalidate(p) ==
  /\ pc[p] = "post_nil"
  /\ lowPricedChair' = nil
  /\ snapObj' = Collect(snapObj, nil, chairs)
  /\ rwHeld' = FALSE
  /\ Finish(p, "post", 0, "Created", None, hist[p], TRUE)
  /\ lastGet' = None
  /\ currentPrice' = [currentPrice EXCEPT ![p] = 0]
  /\ UNCHANGED <<nreq, storeVars, rwReaders, rwLost, rwPending, chairs, target,
                 initStock, commits, tally>>
  /\ UNCHANGED <<estateVars, call>>

\* ---- buyChair -----------------------------------------------------------------
\* tx, err := db.Beginx(); SELECT ... FOR UPDATE finds the row and locks it;
\* UPDATE chair SET stock = stock - 1 WHERE id = ?: the new stock is the
\* transaction's own until it commits
BuySelect(p, id) ==
  /\ Start(p)
  /\ rowLock[id] = 0
  /\ SelectForUpdate(chair, id)
  /\ rowLock' = [rowLock EXCEPT ![id] = p]
  /\ op' = [op EXCEPT ![p] = [name |-> "buy", id |-> id]]
  /\ pc' = [pc EXCEPT ![p] = "buy_commit"]
  /\ MutStep(p)
  /\ UNCHANGED <<chair, cacheVars, mutexVars, localVars, holds,
                 initStock, commits, tally>>
  /\ UNCHANGED <<estateVars, call>>

\* the SELECT finds no row (sql.ErrNoRows): 404, the deferred Rollback runs
BuyNotFound(p, id) ==
  /\ Start(p)
  /\ rowLock[id] = 0
  /\ ~SelectForUpdate(chair, id)
  /\ Finish(p, "buy", id, "NotFound", None, NoHist, TRUE)
  /\ tally' = Count(id, "notFound")
  /\ lastGet' = None
  /\ UNCHANGED <<storeVars, cacheVars, mutexVars, localVars, initStock, commits>>
  /\ UNCHANGED <<estateVars, call>>

\* Beginx or the SELECT fails: 500
BuySelectFail(p, id) ==
  /\ Start(p)
  /\ Finish(p, "buy", id, "StoreFailure", None, NoHist, TRUE)
  /\ tally' = Count(id, "storeFailure")
  /\ lastGet' = None
  /\ UNCHANGED <<storeVars, cacheVars, mutexVars, localVars, initStock, commits>>
  /\ UNCHANGED <<estateVars, call>>

\* the UPDATE or the COMMIT fails: 500, the deferred Rollback releases the row
BuyRollback(p) ==
  /\ pc[p] = "buy_commit"
  /\ rowLock' = [rowLock EXCEPT ![op[p].id] = 0]
  /\ Finish(p, "buy", op[p].id, "StoreFailure", None, hist[p], TRUE)
  /\ tally' = Count(op[p].id, "storeFailure")
  /\ lastGet' = None
  /\ UNCHANGED <<nreq, chair, cacheVars, mutexVars, localVars, initStock, commits>>
  /\ UNCHANGED <<estateVars, call>>

\* err = tx.Commit(): the decrement is stored and the row is released
BuyCommit(p) ==
  /\ pc[p] = "buy_commit"
  /\ chair' = [chair EXCEPT ![op[p].id].stock = @ - 1]
  /\ rowLock' = [rowLock EXCEPT ![op[p].id] = 0]
  /\ commits' = [commits EXCEPT ![op[p].id] = @ + 1]
  /\ pc' = [pc EXCEPT ![p] = "buy_find"]
  /\ hist' = [Others(p, TRUE) EXCEPT
                ![p] = [@ EXCEPT !.committed = TRUE, !.alone = Quiet(p),
                                 !.before = Snapshot]]
  /\ done' = NoDone
  /\ lastGet' = None
  /\ UNCHANGED <<nreq, cacheVars, mutexVars, op, localVars, holds, initStock, tally>>
  /\ UNCHANGED <<estateVars, call>>

\* for i, chair := range lowPricedChair.Chairs { if chair.ID == int64(id) ... }:
\* the index of the first entry with this id, -1 if there is none
FindTarget(cs, id) ==
  IF \E k \in 1..Len(cs) : cs[k].id = id
  THEN (CHOOSE k \in 1..Len(cs) :
          cs[k].id = id /\ \A l \in 1..(k - 1) : cs[l].id # id) - 1
  ELSE -1

\* lowPricedChairMutex.RLock(); the loop; lowPricedChairMutex.RUnlock();
\* if target > -1 { ... } return c.NoContent(http.StatusOK).
\* The shared section is one step, as in PostRead.
BuyFind(p) ==
  /\ pc[p] = "buy_find"
  /\ CanRLock
  /\ lowPricedChair # nil
  /\ LET t == FindTarget(Chairs, op[p].id)
     IN IF t > -1
        THEN /\ target' = [target EXCEPT ![p] = t]
             /\ pc' = [pc EXCEPT ![p] = "buy_lock"]
             /\ MutStep(p)
             /\ UNCHANGED <<op, tally, holds>>
        ELSE /\ Finish(p, "buy", op[p].id, "OK", None, hist[p], TRUE)
             /\ tally' = Count(op[p].id, "ok")
             /\ lastGet' = None
             /\ UNCHANGED target
  /\ UNCHANGED <<nreq, storeVars, cacheVars, mutexVars, chairs, currentPrice,
                 initStock, commits>>
  /\ UNCHANGED <<estateVars, call>>

\* the loop when lowPricedChair is nil: the handler panics after the commit,
\* the request is answered 500 and RUnlock is never called
BuyFindPanic(p) ==
  /\ pc[p] = "buy_find"
  /\ CanRLock
  /\ lowPricedChair = nil
  /\ rwLost' = TRUE
  /\ Finish(p, "buy", op[p].id, "Panic", None, hist[p], TRUE)
  /\ tally' = Count(op[p].id, "panic")
  /\ lastGet' = None
  /\ UNCHANGED <<nreq, storeVars, cacheVars, rwReaders, rwPending, rwHeld, localVars,
                 initStock, commits>>
  /\ UNCHANGED <<estateVars, call>>

\* lowPricedChairMutex.Lock(): the writer enters at once when no reader is in,
\* else it announces itself to the readers and waits
BuyLock(p) ==
  /\ pc[p] = "buy_lock"
  /\ CanLock
  /\ IF NoReaders
     THEN /\ rwHeld' = TRUE
          /\ holds' = [holds EXCEPT ![p] = "exclusive"]
          /\ pc' = [pc EXCEPT ![p] = "buy_patch"]
          /\ UNCHANGED rwPending
     ELSE /\ rwPending' = TRUE
          /\ pc' = [pc EXCEPT ![p] = "buy_lockwait"]
          /\ UNCHANGED <<rwHeld, holds>>
  /\ MutStep(p)
  /\ UNCHANGED <<nreq, storeVars, cacheVars, rwReaders, rwLost, op, localVars,
                 initStock, commits, tally>>
  /\ UNCHANGED <<estateVars, call>>

\* Lock() returns once the readers have left
BuyLockWait(p) ==
  /\ pc[p] = "buy_lockwait"
  /\ NoReaders
  /\ rwPending' = FALSE
  /\ rwHeld' = TRUE
  /\ holds' = [holds EXCEPT ![p] = "exclusive"]
  /\ pc' = [pc EXCEPT ![p] = "buy_patch"]
  /\ MutStep(p)
  /\ UNCHANGED <<nreq, storeVars, cacheVars, rwReaders, rwLost, op, localVars,
                 initStock, commits, tally>>
  /\ UNCHANGED <<estateVars, call>>

\* the patch without the decrement
DecrementLost(cs, t) == cs

\* lowPricedChair.Chairs[target].Stock--
Decrement(cs, t) == [cs EXCEPT ![t + 1].stock = @ - 1]

\* if lowPricedChair.Chairs[target].Stock == 0
SoldOut(cs, t) == cs[t + 1].stock = 0

\* lowPricedChair.Chairs[target].Stock--, written into the published object;
\* if lowPricedChair.Chairs[target].Stock == 0 { lowPricedChair = nil };
\* lowPricedChairMutex.Unlock(); return c.NoContent(http.StatusOK)
BuyPatch(p) ==
  /\ pc[p] = "buy_patch"
  /\ lowPricedChair # nil
  /\ target[p] < Len(Chairs)
  /\ LET cs == Decrement(Chairs, target[p])
     IN IF SoldOut(cs, target[p])
        THEN /\ lowPricedChair' = nil
             /\ snapObj' = Collect(snapObj, nil, chairs)
        ELSE /\ snapObj' = [snapObj EXCEPT ![lowPricedChair] = cs]
             /\ UNCHANGED lowPricedChair
  /\ rwHeld' = FALSE
  /\ target' = [target EXCEPT ![p] = -1]
  /\ Finish(p, "buy", op[p].id, "OK", None, hist[p], TRUE)
  /\ tally' = Count(op[p].id, "ok")
  /\ lastGet' = None
  /\ UNCHANGED <<nreq, storeVars, rwReaders, rwLost, rwPending, chairs, currentPrice,
                 initStock, commits>>
  /\ UNCHANGED <<estateVars, call>>

\* the same statement when lowPricedChair is nil by now or has no entry at
\* target: the handler panics, the request is answered 500 and Unlock is never
\* called
BuyPatchPanic(p) ==
  /\ pc[p] = "buy_patch"
  /\ lowPricedChair = nil \/ target[p] >= Len(Chairs)
  /\ target' = [target EXCEPT ![p] = -1]
  /\ Finish(p, "buy", op[p].id, "Panic", None, hist[p], TRUE)
  /\ tally' = Count(op[p].id, "panic")
  /\ lastGet' = None
  /\ UNCHANGED <<nreq, storeVars, cacheVars, mutexVars, chairs, currentPrice,
                 initStock, commits>>
  /\ UNCHANGED <<estateVars, call>>

Next ==
  \E p \in Procs :
    \/ GetRLock(p)
    \/ GetCached(p)
    \/ GetSelect(p)
    \/ GetSelectFail(p)
    \/ GetPublish(p)
    \/ GetReturn(p)
    \/ \E rows \in PostRows : PostInsert(p, rows)
    \/ PostInsertFail(p)
    \/ PostRead(p)
    \/ PostReadPanic(p)
    \/ PostLock(p)
    \/ PostLockWait(p)
    \/ PostInvalidate(p)
    \/ \E id \in ChairIds : BuySelect(p, id)
    \/ \E id \in ChairIds : BuyNotFound(p, id)
    \/ \E id \in ChairIds : BuySelectFail(p, id)
    \/ BuyRollback(p)
    \/ BuyCommit(p)
    \/ BuyFind(p)
    \/ BuyFindPanic(p)
    \/ BuyLock(p)
    \/ BuyLockWait(p)
    \/ BuyPatch(p)
    \/ BuyPatchPanic(p)

Spec == Init /\ [][Next]_vars

\* ---- the chair requests, after a getLowPricedChair has published ----------------
\* the store of Init after one getLowPricedChair has returned: the snapshot it
\* selected is published in the first object of the heap
InitPatch ==
  /\ chair \in [ChairIds -> {NoRow} \cup [present : {TRUE}, price : SeedPrices, stock : Stocks]]
  /\ \A i \in ChairIds : chair[i].present <=> i \in SeedIds
  /\ rowLock = [i \in ChairIds |-> 0]
  /\ lowPricedChair = 1
  /\ snapObj = [o \in ObjIds |-> IF o = 1 THEN SelectLowPriced(chair) ELSE <<>>]
  /\ rwReaders = 0
  /\ rwLost = FALSE
  /\ rwPending = FALSE
  /\ rwHeld = FALSE
  /\ pc = [p \in Procs |-> "idle"]
  /\ op = [p \in Procs |-> NoOp]
  /\ chairs = [p \in Procs |-> nil]
  /\ target = [p \in Procs |-> -1]
  /\ currentPrice = [p \in Procs |-> 0]
  /\ holds = [p \in Procs |-> "none"]
  /\ nreq = 0
  /\ done = NoDone
  /\ initStock = [i \in ChairIds |-> chair[i].stock]
  /\ commits = [i \in ChairIds |-> 0]
  /\ tally = [i \in ChairIds |-> NoTally]
  /\ hist = [p \in Procs |-> NoHist]
  /\ lastGet = None
  /\ EstateIdle
  /\ call = NoCall

SpecPatch == InitPatch /\ [][Next]_vars

\* ---- initialize -------------------------------------------------------------------
\* the table chair as the scripts of initialize load it: the chairs the
\* program started with, each with the stock it started with
SeededChairs ==
  [i \in DOMAIN chair |->
     IF i \in SeedIds THEN [chair[i] EXCEPT !.stock = initStock[i]] ELSE NoRow]

\* the scripts run (DROP TABLE waits for the transactions that use the table)
\* and the tables are as they were when the program started; no statement of
\* the handler names lowPricedChair or cachedEstates; 200
Initialize(p) ==
  /\ Start(p)
  /\ \A i \in DOMAIN rowLock : rowLock[i] = 0
  /\ chair' = SeededChairs
  /\ initStock' = [i \in DOMAIN initStock |-> IF i \in SeedIds THEN initStock[i] ELSE 0]
  /\ commits' = [i \in DOMAIN commits |-> 0]
  /\ tally' = [i \in DOMAIN tally |-> NoTally]
  /\ Finish(p, "initialize", 0, "OK", None, NoHist, TRUE)
  /\ lastGet' = None
  /\ UNCHANGED <<rowLock, cacheVars, mutexVars, localVars>>
  /\ UNCHANGED <<estateVars, call>>

\* the first script fails: 500, the tables are as they were
InitializeFail(p) ==
  /\ Start(p)
  /\ Finish(p, "initialize", 0, "StoreFailure", None, NoHist, TRUE)
  /\ lastGet' = None
  /\ UNCHANGED <<storeVars, cacheVars, mutexVars, localVars, initStock, commits, tally>>
  /\ UNCHANGED <<estateVars, call>>

NextInitialize ==
  \/ Next
  \/ \E p \in Procs : Initialize(p)
  \/ \E p \in Procs : InitializeFail(p)

SpecInitialize == InitPatch /\ [][NextInitialize]_vars

\* ---- postChair with two records ---------------------------------------------------
\* the chair ids of a store with room for two more chairs than the seeds
PostChairIds == ChairIds \cup {3}

\* the requests of two records with ids that are not in the store, in either
\* order, each record at either price
PostPairs ==
  {rows \in [1..2 -> [id : PostChairIds \ SeedIds, price : Prices, stock : PostStocks]] :
     rows[1].id # rows[2].id}

InitPost ==
  /\ chair \in [PostChairIds ->
                  {NoRow} \cup [present : {TRUE}, price : SeedPrices, stock : Stocks]]
  /\ \A i \in PostChairIds : chair[i].present <=> i \in SeedIds
  /\ rowLock = [i \in PostChairIds |-> 0]
  /\ lowPricedChair = nil
  /\ snapObj = [o \in ObjIds |-> <<>>]
  /\ rwReaders = 0
  /\ rwLost = FALSE
  /\ rwPending = FALSE
  /\ rwHeld = FALSE
  /\ pc = [p \in Procs |-> "idle"]
  /\ op = [p \in Procs |-> NoOp]
  /\ chairs = [p \in Procs |-> nil]
  /\ target = [p \in Procs |-> -1]
  /\ currentPrice = [p \in Procs |-> 0]
  /\ holds = [p \in Procs |-> "none"]
  /\ nreq = 0
  /\ done = NoDone
  /\ initStock = [i \in PostChairIds |-> chair[i].stock]
  /\ commits = [i \in PostChairIds |-> 0]
  /\ tally = [i \in PostChairIds |-> NoTally]
  /\ hist = [p \in Procs |-> NoHist]
  /\ lastGet = None
  /\ EstateIdle
  /\ call = NoCall

NextPost ==
  \E p \in Procs :
    \/ GetRLock(p)
    \/ GetCached(p)
    \/ GetSelect(p)
    \/ GetSelectFail(p)
    \/ GetPublish(p)
    \/ GetReturn(p)
    \/ \E rows \in PostPairs : PostInsert(p, rows)
    \/ PostInsertFail(p)
    \/ PostRead(p)
    \/ PostReadPanic(p)
    \/ PostLock(p)
    \/ PostLockWait(p)
    \/ PostInvalidate(p)

SpecPost == InitPost /\ [][NextPost]_vars

\* ---- estate rows and the square polygon ---------------------------------------
\* an estate row with the one feature "A"
EstateAt(i, la, lo, po) ==
  [present |-> TRUE, id |-> i, latitude |-> la, longitude |-> lo, popularity |-> po,
   features |-> <<"A">>]

Square == <<Coordinate(0, 0), Coordinate(0, 10), Coordinate(10, 10), Coordinate(10, 0)>>

\* ---- postEstate ---------------------------------------------------------------
\* estateSearchCondition.Feature.List: the feature names, in the order of the list
EstateFeatureList == <<"A", "B", "C">>

\* estateFeatureMap[f]: the index of f in the list; a name that is no key of the
\* map reads as the zero value
estateFeatureMap(f) ==
  IF \E k \in 1..Len(EstateFeatureList) : EstateFeatureList[k] = f
  THEN (CHOOSE k \in 1..Len(EstateFeatureList) : EstateFeatureList[k] = f) - 1
  ELSE 0

\* for _, f := range strings.Split(features, ",") { if len(f) == 0 { continue };
\* ids = append(ids, estateFeatureMap[f]) }, features given as the split list
RECURSIVE FeatureIds(_)
FeatureIds(features) ==
  IF Len(features) = 0 THEN <<>>
  ELSE (IF Head(features) = "" THEN <<>> ELSE <<estateFeatureMap(Head(features))>>)
         \o FeatureIds(Tail(features))

\* fargs: the rows <<estate_id, feature_id>> of all records, in order
RECURSIVE FeatureRows(_)
FeatureRows(records) ==
  IF Len(records) = 0 THEN <<>>
  ELSE LET ids == FeatureIds(Head(records).features)
       IN [k \in 1..Len(ids) |-> <<Head(records).id, ids[k]>>]
            \o FeatureRows(Tail(records))

\* both INSERT statements succeed: there is a record and a feature row, no
\* primary key of estate or of estate_feature is given twice or is in the table
EstateInsertable(records) ==
  LET rows == FeatureRows(records)
  IN /\ Len(records) > 0
     /\ \A k \in 1..Len(records) : ~estate[records[k].id].present
     /\ \A k, l \in 1..Len(records) : records[k].id = records[l].id => k = l
     /\ Len(rows) > 0
     /\ \A k \in 1..Len(rows) : rows[k] \notin estateFeature
     /\ \A k, l \in 1..Len(rows) : rows[k] = rows[l] => k = l

\* tx.Exec(INSERT INTO estate ...); tx.Exec(INSERT INTO estate_feature ...);
\* tx.Commit(); 201
PostEstate(p, records) ==
  /\ npc[p] = "idle"
  /\ enreq < MaxReqs
  /\ EstateInsertable(records)
  /\ estate' = [i \in EstateIds |->
                  IF \E k \in 1..Len(records) : records[k].id = i
                  THEN LET r == records[CHOOSE k \in 1..Len(records) : records[k].id = i]
                       IN [EstateAt(i, r.latitude, r.longitude, r.popularity)
                             EXCEPT !.features = r.features]
                  ELSE estate[i]]
  /\ estateFeature' = estateFeature
                        \cup {FeatureRows(records)[k] : k \in 1..Len(FeatureRows(records))}
  /\ enreq' = enreq + 1
  /\ ndone' = [name |-> "postEstate", status |-> 201, records |-> records]
  /\ UNCHANGED <<cachedEstates, npc, nz, chairVars, call>>

\* an INSERT fails: 500, and the deferred tx.Rollback() leaves the tables as
\* they were
PostEstateFail(p, records) ==
  /\ npc[p] = "idle"
  /\ enreq < MaxReqs
  /\ ~EstateInsertable(records)
  /\ enreq' = enreq + 1
  /\ ndone' = [name |-> "postEstate", status |-> 500, records |-> records]
  /\ UNCHANGED <<estate, estateFeature, cachedEstates, npc, nz, chairVars, call>>

\* ---- searchEstateNazotte ------------------------------------------------------
\* the ids of a set, ascending: the order in which the store lists rows
RECURSIVE ById(_)
ById(S) ==
  IF S = {} THEN <<>>
  ELSE LET i == CHOOSE i \in S : \A j \in S : i <= j
       IN <<i>> \o ById(S \ {i})

\* SELECT id, latitude, longitude FROM estate WHERE latitude <= ? AND
\* latitude >= ? AND longitude <= ? AND longitude >= ?
BoxSelect(es, b) ==
  LET ids == ById({i \in EstateIds :
                     /\ es[i].present
                     /\ es[i].latitude <= b.BottomRightCorner.latitude
                     /\ es[i].latitude >= b.TopLeftCorner.latitude
                     /\ es[i].longitude <= b.BottomRightCorner.longitude
                     /\ es[i].longitude >= b.TopLeftCorner.longitude})
  IN [k \in 1..Len(ids) |->
        [id |-> ids[k], latitude |-> es[ids[k]].latitude,
         longitude |-> es[ids[k]].longitude]]

\* the lookup that finds no entry
CachedNone(ids, cache) == <<>>

\* if data, ok := cachedEstates[id]; ok { estatesInPolygon = append(..., data) }
RECURSIVE Cached(_, _)
Cached(ids, cache) ==
  IF Len(ids) = 0 THEN <<>>
  ELSE (IF cache[Head(ids)].present THEN <<cache[Head(ids)]>> ELSE <<>>)
         \o Cached(Tail(ids), cache)

\* the lookup that takes every id for missing
MissingAll(ids, cache) == ids

\* else { missingIDs = append(missingIDs, id) }
RECURSIVE Missing(_, _)
Missing(ids, cache) ==
  IF Len(ids) = 0 THEN <<>>
  ELSE (IF cache[Head(ids)].present THEN <<>> ELSE <<Head(ids)>>)
         \o Missing(Tail(ids), cache)

\* SELECT * FROM estate WHERE id IN (?)
IdSelect(es, missingIDs) ==
  LET ids == ById({i \in EstateIds :
                     es[i].present /\ \E k \in 1..Len(missingIDs) : missingIDs[k] = i})
  IN [k \in 1..Len(ids) |-> es[ids[k]]]

\* the put that keeps no other entry
PutFresh(cache, missingEstates) ==
  [i \in EstateIds |->
     IF \E k \in 1..Len(missingEstates) : missingEstates[k].id = i
     THEN missingEstates[CHOOSE k \in 1..Len(missingEstates) : missingEstates[k].id = i]
     ELSE NoEstate]

\* the put that takes the position in missingEstates for the key
PutByIndex(cache, missingEstates) ==
  [i \in EstateIds |->
     IF i <= Len(missingEstates) THEN missingEstates[i] ELSE cache[i]]

\* for _, estate := range missingEstates { cachedEstates[int(estate.ID)] = estate }
Put(cache, missingEstates) ==
  [i \in EstateIds |->
     IF \E k \in 1..Len(missingEstates) : missingEstates[k].id = i
     THEN missingEstates[CHOOSE k \in 1..Len(missingEstates) : missingEstates[k].id = i]
     ELSE cache[i]]

NoResponse == [Estates |-> <<>>, Count |-> 0]

\* cachedEstatesMutex, as the requests in flight hold it: RLock() returns when
\* no request holds it exclusively, Lock() when no other request holds it
CeCanRLock(p) == \A q \in Procs \ {p} : nz[q].holds # "exclusive"
CeCanLock(p) == \A q \in Procs \ {p} : nz[q].holds = "none"

\* the lookup that returns with the shared lock held
CeRUnlockLate(h) == h

\* cachedEstatesMutex.RLock(): what the caller holds afterwards
CeRLock(h) == "shared"

\* cachedEstatesMutex.RUnlock()
CeRUnlock(h) == "none"

\* cachedEstatesMutex.Lock()
CeLock(h) == "exclusive"

\* cachedEstatesMutex.Unlock()
CeUnlock(h) == "none"


\* the request ends with a status and a body; l are its locals at the end
NzEnd(p, status, re, l) ==
  /\ npc' = [npc EXCEPT ![p] = "idle"]
  /\ nz' = [nz EXCEPT ![p] = NoLocals]
  /\ ndone' = [name |-> "searchEstateNazotte", status |-> status, re |-> re,
               locals |-> l]

\* if len(coordinates.Coordinates) == 0 { return 400 }
NzBadRequest(p) ==
  /\ npc[p] = "idle"
  /\ enreq < MaxReqs
  /\ enreq' = enreq + 1
  /\ NzEnd(p, 400, NoResponse, NoLocals)
  /\ UNCHANGED <<estate, estateFeature, cachedEstates, chairVars, call>>

\* b := coordinates.getBoundingBox(); db.Select(&estatesInBoundingBox, ...);
\* the containment loop; no id in the polygon: 200 with Count 0
NzBox(p, coordinates) ==
  /\ npc[p] = "idle"
  /\ enreq < MaxReqs
  /\ Len(coordinates) > 0
  /\ enreq' = enreq + 1
  /\ LET b == getBoundingBox(coordinates)
         estatesInBoundingBox == BoxSelect(estate, b)
         l == [NoLocals EXCEPT
                 !.coordinates = coordinates,
                 !.estatesInPolygonIDs = InPolygonIDs(coordinates, estatesInBoundingBox),
                 !.atBox = estate,
                 !.queries = 1]
     IN IF Len(l.estatesInPolygonIDs) = 0
        THEN NzEnd(p, 200, NoResponse, l)
        ELSE /\ npc' = [npc EXCEPT ![p] = "lookup"]
             /\ nz' = [nz EXCEPT ![p] = l]
             /\ ndone' = NoDone
  /\ UNCHANGED <<estate, estateFeature, cachedEstates, chairVars, call>>

\* the bounding box query fails: 500
NzBoxFail(p, coordinates) ==
  /\ npc[p] = "idle"
  /\ enreq < MaxReqs
  /\ Len(coordinates) > 0
  /\ enreq' = enreq + 1
  /\ NzEnd(p, 500, NoResponse, NoLocals)
  /\ UNCHANGED <<estate, estateFeature, cachedEstates, chairVars, call>>

\* cachedEstatesMutex.RLock(); the lookup loop; RUnlock(); nothing missing:
\* sort, truncate, 200
NzLookup(p) ==
  /\ npc[p] = "lookup"
  /\ CeCanRLock(p)
  /\ LET ids == nz[p].estatesInPolygonIDs
         l == [nz[p] EXCEPT
                 !.estatesInPolygon = Cached(ids, cachedEstates),
                 !.missingIDs = Missing(ids, cachedEstates),
                 !.atLookup = {i \in EstateIds : cachedEstates[i].present},
                 !.holds = CeRUnlock(CeRLock(@))]
     IN IF Len(l.missingIDs) = 0
        THEN NzEnd(p, 200, Respond(l.estatesInPolygon), l)
        ELSE /\ npc' = [npc EXCEPT ![p] = "fetch"]
             /\ nz' = [nz EXCEPT ![p] = l]
             /\ ndone' = NoDone
  /\ UNCHANGED <<estate, estateFeature, cachedEstates, enreq, chairVars, call>>

\* db.Select(&missingEstates, "SELECT * FROM estate WHERE id IN (?)", missingIDs);
\* estatesInPolygon = append(estatesInPolygon, missingEstates...)
NzFetch(p) ==
  /\ npc[p] = "fetch"
  /\ LET missingEstates == IdSelect(estate, nz[p].missingIDs)
     IN nz' = [nz EXCEPT ![p] =
                 [@ EXCEPT !.missingEstates = missingEstates,
                           !.estatesInPolygon = @ \o missingEstates,
                           !.fetches = Append(@, nz[p].missingIDs),
                           !.queries = @ + 1]]
  /\ npc' = [npc EXCEPT ![p] = "put"]
  /\ ndone' = NoDone
  /\ UNCHANGED <<estate, estateFeature, cachedEstates, enreq, chairVars, call>>

\* the fetch of the missing estates fails: 500
NzFetchFail(p) ==
  /\ npc[p] = "fetch"
  /\ NzEnd(p, 500, NoResponse,
           [nz[p] EXCEPT !.fetches = Append(@, nz[p].missingIDs),
                         !.queries = @ + 1])
  /\ UNCHANGED <<estate, estateFeature, cachedEstates, enreq, chairVars, call>>

\* cachedEstatesMutex.Lock(); the put loop; Unlock(); sort, truncate, 200
NzPut(p) ==
  /\ npc[p] = "put"
  /\ CeCanLock(p)
  /\ cachedEstates' = Put(cachedEstates, nz[p].missingEstates)
  /\ NzEnd(p, 200, Respond(nz[p].estatesInPolygon),
           [nz[p] EXCEPT !.holds = CeUnlock(CeLock(@))])
  /\ UNCHANGED <<estate, estateFeature, enreq, chairVars, call>>

\* ---- polygon searches and estate insertions ---------------------------------
\* the places of the estates, the polygons of the requests and the records of
\* the insertions
EstateSites == {Coordinate(5, 5), Coordinate(20, 20)}
Triangle == <<Coordinate(0, 0), Coordinate(0, 20), Coordinate(20, 0)>>
Wide == <<Coordinate(0, 0), Coordinate(0, 30), Coordinate(30, 30), Coordinate(30, 0)>>
Far == <<Coordinate(30, 30), Coordinate(30, 40), Coordinate(40, 30)>>
Corner == <<Coordinate(0, 0), Coordinate(0, 8), Coordinate(8, 0)>>
Polygons == {Triangle, Wide, Far, Corner}
EstateRecords ==
  {<<[id |-> i, latitude |-> s.latitude, longitude |-> s.longitude,
      popularity |-> po, features |-> <<"A">>]>> :
     i \in EstateIds, s \in EstateSites, po \in Pops}
    \cup {<<[id |-> i, latitude |-> 5, longitude |-> 5, popularity |-> 1,
             features |-> <<"">>]>> : i \in EstateIds}

\* two estates are stored, one in the triangle and one outside it, the more
\* popular one with the greater id; no estate request has run
InitNazotte ==
  /\ ChairIdle
  /\ call = NoCall
  /\ estate = [i \in EstateIds |->
                 IF i = 1 THEN EstateAt(1, 5, 5, 1)
                 ELSE IF i = 2 THEN EstateAt(2, 20, 20, 2)
                 ELSE NoEstate]
  /\ estateFeature = {<<1, 0>>, <<2, 0>>}
  /\ cachedEstates = [i \in EstateIds |-> NoEstate]
  /\ npc = [p \in Procs |-> "idle"]
  /\ nz = [p \in Procs |-> NoLocals]
  /\ ndone = NoDone
  /\ enreq = 0

NextNazotte ==
  \E p \in Procs :
    \/ \E records \in EstateRecords : PostEstate(p, records)
    \/ \E records \in EstateRecords : PostEstateFail(p, records)
    \/ NzBadRequest(p)
    \/ \E coordinates \in Polygons : NzBox(p, coordinates)
    \/ \E coordinates \in Polygons : NzBoxFail(p, coordinates)
    \/ NzLookup(p)
    \/ NzFetch(p)
    \/ NzFetchFail(p)
    \/ NzPut(p)

SpecNazotte == InitNazotte /\ [][NextNazotte]_vars

\* ---- searchEstates ------------------------------------------------------------
\* the offset that is the number of the page
OffsetOfPage(page, perPage) == page

\* params = append(params, perPage, page*perPage)
Offset(page, perPage) == page * perPage

\* LIMIT ? OFFSET ? over rows in their order
LimitOffset(rows, limit, offset) ==
  LET n == IF offset >= Len(rows) THEN 0
           ELSE IF Len(rows) - offset < limit THEN Len(rows) - offset
           ELSE limit
  IN [k \in 1..n |-> rows[offset + k]]

\* ORDER BY popularity DESC, id ASC LIMIT perPage OFFSET page*perPage
SearchSelect(matches, page, perPage) ==
  LimitOffset(SortSlice(matches), perPage, Offset(page, perPage))

\* SELECT estate_id FROM estate_feature WHERE feature_id IN (:FEATURES)
\* GROUP BY estate_id HAVING COUNT(*) = :FEATURES_NUM
FeatureJoin(ef, ids) ==
  {i \in EstateIds :
     /\ \E r \in ef : r[1] = i /\ \E k \in 1..Len(ids) : ids[k] = r[2]
     /\ Cardinality({r \in ef : r[1] = i /\ \E k \in 1..Len(ids) : ids[k] = r[2]})
          = Len(ids)}

\* the rows of estate joined with TMP, listed by id
EstateMatches(es, ef, features) ==
  LET ids == ById({i \in FeatureJoin(ef, FeatureIds(features)) : es[i].present})
  IN [k \in 1..Len(ids) |-> es[ids[k]]]

\* c.QueryParam("features") == "": its split is the one empty string
NoFeatures == <<"">>

\* no condition and no features: 400
SearchEstatesBadRequest(p) ==
  /\ npc[p] = "idle"
  /\ enreq < MaxReqs
  /\ enreq' = enreq + 1
  /\ npc' = npc
  /\ nz' = nz
  /\ ndone' = [name |-> "searchEstates", status |-> 400, features |-> NoFeatures,
               queries |-> nz[p].queries]
  /\ UNCHANGED <<estate, estateFeature, cachedEstates, chairVars, call>>

\* db.Get(&res.Count, countQuery+searchCondition, params...)
SearchEstatesCount(p, features, page, perPage) ==
  /\ npc[p] = "idle"
  /\ enreq < MaxReqs
  /\ features # NoFeatures
  /\ Len(FeatureIds(features)) > 0
  /\ enreq' = enreq + 1
  /\ npc' = [npc EXCEPT ![p] = "select"]
  /\ nz' = [nz EXCEPT ![p] =
              [NoLocals EXCEPT !.features = features, !.page = page,
                               !.perPage = perPage,
                               !.Count = Len(EstateMatches(estate, estateFeature, features)),
                               !.atBox = estate, !.queries = 1]]
  /\ ndone' = NoDone
  /\ UNCHANGED <<estate, estateFeature, cachedEstates, chairVars, call>>

\* the count query fails, as it does with IN () when features holds nothing
\* but separators: 500
SearchEstatesCountFail(p, features) ==
  /\ npc[p] = "idle"
  /\ enreq < MaxReqs
  /\ features # NoFeatures
  /\ enreq' = enreq + 1
  /\ npc' = npc
  /\ nz' = nz
  /\ ndone' = [name |-> "searchEstates", status |-> 500, query |-> "count",
               features |-> features, queries |-> nz[p].queries + 1]
  /\ UNCHANGED <<estate, estateFeature, cachedEstates, chairVars, call>>

\* db.Select(&estates, searchQuery+searchCondition+limitOffset, params...),
\* which the store runs when LIMIT and OFFSET are not negative;
\* res.Estates = estates; 200
SearchEstatesSelect(p) ==
  /\ npc[p] = "select"
  /\ nz[p].perPage >= 0
  /\ Offset(nz[p].page, nz[p].perPage) >= 0
  /\ npc' = [npc EXCEPT ![p] = "idle"]
  /\ nz' = [nz EXCEPT ![p] = NoLocals]
  /\ ndone' = [name |-> "searchEstates", status |-> 200,
               features |-> nz[p].features, page |-> nz[p].page,
               perPage |-> nz[p].perPage, queries |-> nz[p].queries + 1,
               quiet |-> nz[p].atBox = estate,
               store |-> estate,
               re |-> [Count |-> nz[p].Count,
                       Estates |-> SearchSelect(
                                     EstateMatches(estate, estateFeature, nz[p].features),
                                     nz[p].page, nz[p].perPage)]]
  /\ UNCHANGED <<estate, estateFeature, cachedEstates, enreq, chairVars, call>>

\* the search query fails, as it does with a negative LIMIT or OFFSET: 500
SearchEstatesSelectFail(p) ==
  /\ npc[p] = "select"
  /\ npc' = [npc EXCEPT ![p] = "idle"]
  /\ nz' = [nz EXCEPT ![p] = NoLocals]
  /\ ndone' = [name |-> "searchEstates", status |-> 500, query |-> "search",
               features |-> nz[p].features, page |-> nz[p].page,
               perPage |-> nz[p].perPage, queries |-> nz[p].queries + 1]
  /\ UNCHANGED <<estate, estateFeature, cachedEstates, enreq, chairVars, call>>

\* ---- estate searches and estate insertions ------------------------------------
\* the features of the records and of the requests
RecordFeatures == {<<"A">>, <<"B">>, <<"A", "B", "C">>, <<"A", "A">>, <<"A", "D">>}
RequestFeatures == {<<"A">>, <<"A", "B">>, <<"A", "D">>, <<"D">>, <<"A", "A">>, <<"", "">>}
SearchRecords ==
  {<<[id |-> i, latitude |-> 5, longitude |-> 5, popularity |-> 1, features |-> fs]>> :
     i \in EstateIds, fs \in RecordFeatures}

InitSearch ==
  /\ ChairIdle
  /\ EstateIdle
  /\ call = NoCall

NextSearch ==
  \E p \in Procs :
    \/ \E records \in SearchRecords : PostEstate(p, records)
    \/ \E records \in SearchRecords : PostEstateFail(p, records)
    \/ SearchEstatesBadRequest(p)
    \/ \E features \in RequestFeatures, page \in {0, 1}, perPage \in {1, MaxEstates} :
         SearchEstatesCount(p, features, page, perPage)
    \/ \E features \in RequestFeatures : SearchEstatesCountFail(p, features)
    \/ SearchEstatesSelect(p)
    \/ SearchEstatesSelectFail(p)

SpecSearch == InitSearch /\ [][NextSearch]_vars

\* ---- getRange and the levels of postChair and postEstate ------------------------
\* the value of a decimal digit, -1 for any other character
Digit(ch) ==
  IF ch = "0" THEN 0 ELSE IF ch = "1" THEN 1 ELSE IF ch = "2" THEN 2
  ELSE IF ch = "3" THEN 3 ELSE IF ch = "4" THEN 4 ELSE IF ch = "5" THEN 5
  ELSE IF ch = "6" THEN 6 ELSE IF ch = "7" THEN 7 ELSE IF ch = "8" THEN 8
  ELSE IF ch = "9" THEN 9 ELSE -1

\* the value of a sequence of digits read after the value acc
RECURSIVE Digits(_, _)
Digits(text, acc) ==
  IF Len(text) = 0 THEN acc
  ELSE Digits(Tail(text), acc * 10 + Digit(Head(text)))

\* strconv.Atoi of a text (the sequence of its characters): an optional sign
\* and at least one digit, nothing else
Atoi(text) ==
  LET signed == Len(text) > 0 /\ Head(text) \in {"+", "-"}
      body == IF signed THEN Tail(text) ELSE text
  IN IF Len(body) = 0 \/ \E k \in 1..Len(body) : Digit(body[k]) < 0
     THEN [err |-> TRUE, n |-> 0]
     ELSE [err |-> FALSE,
           n |-> IF signed /\ Head(text) = "-" THEN 0 - Digits(body, 0)
                 ELSE Digits(body, 0)]

NoRange == [ID |-> -1, Min |-> -1, Max |-> -1]

\* the bound check that lets the index len(cond.Ranges) pass
OutOfRangePast(RangeIndex, len) == RangeIndex < 0 \/ len < RangeIndex

\* RangeIndex < 0 || len(cond.Ranges) <= RangeIndex
OutOfRange(RangeIndex, len) == RangeIndex < 0 \/ len <= RangeIndex

\* func getRange(cond RangeCondition, rangeID string) (*Range, error); an index
\* outside the slice panics
getRange(cond, rangeID) ==
  LET a == Atoi(rangeID)
  IN IF a.err THEN [err |-> TRUE, panic |-> FALSE, range |-> NoRange, cond |-> cond]
     ELSE IF OutOfRange(a.n, Len(cond.Ranges))
     THEN [err |-> TRUE, panic |-> FALSE, range |-> NoRange, cond |-> cond]
     ELSE IF a.n + 1 \in 1..Len(cond.Ranges)
     THEN [err |-> FALSE, panic |-> FALSE, range |-> cond.Ranges[a.n + 1],
           cond |-> cond]
     ELSE [err |-> FALSE, panic |-> TRUE, range |-> NoRange, cond |-> cond]

\* the switch whose second case starts above 80
SizeLevelAbove(v) ==
  IF v < 80 THEN 0
  ELSE IF v > 80 /\ v < 110 THEN 1
  ELSE IF v >= 110 /\ v < 150 THEN 2
  ELSE IF v >= 150 THEN 3
  ELSE -1

\* widthLevel, heightLevel, depthLevel of postChair and widthLevel, heightLevel
\* of postEstate: the switch over 80, 110, 150
SizeLevel(v) ==
  IF v < 80 THEN 0
  ELSE IF v >= 80 /\ v < 110 THEN 1
  ELSE IF v >= 110 /\ v < 150 THEN 2
  ELSE IF v >= 150 THEN 3
  ELSE -1

\* priceLevel of postChair: the switch over 3000, 6000, 9000, 12000, 15000
PriceLevel(price) ==
  IF price < 3000 THEN 0
  ELSE IF price >= 3000 /\ price < 6000 THEN 1
  ELSE IF price >= 6000 /\ price < 9000 THEN 2
  ELSE IF price >= 9000 /\ price < 12000 THEN 3
  ELSE IF price >= 12000 /\ price < 15000 THEN 4
  ELSE IF price >= 15000 THEN 5
  ELSE -1

\* rentLevel of postEstate: the switch over 50000, 100000, 150000
RentLevel(rent) ==
  IF rent < 50000 THEN 0
  ELSE IF rent >= 50000 /\ rent < 100000 THEN 1
  ELSE IF rent >= 100000 /\ rent < 150000 THEN 2
  ELSE IF rent >= 150000 THEN 3
  ELSE -1

\* the levels a record is stored with
Levels(in) ==
  [size |-> SizeLevel(in.size), price |-> PriceLevel(in.price),
   rent |-> RentLevel(in.rent)]

\* ---- searchChairs: the functions -----------------------------------------------
\* a text is the sequence of its characters; the text of the column features
\* is the chair's tags joined by commas
RECURSIVE JoinComma(_)
JoinComma(tags) ==
  IF Len(tags) = 0 THEN <<>>
  ELSE IF Len(tags) = 1 THEN tags[1]
  ELSE tags[1] \o <<",">> \o JoinComma(Tail(tags))

\* features LIKE CONCAT('%', ?, '%'): f occurs somewhere in the text
Like(text, f) ==
  \E o \in 0..(Len(text) - Len(f)) : \A k \in 1..Len(f) : text[o + k] = f[k]

\* for _, f := range strings.Split(c.QueryParam("features"), ",") { conditions =
\* append(conditions, "features LIKE CONCAT('%', ?, '%')") }, joined by AND
ChairFeatureConditions(text, features) ==
  \A k \in 1..Len(features) : Like(text, features[k])

\* the pages 0, 1, ... of a search over the rows that match, up to one page
\* past the last row: res.Count of the count query and the rows of the search
\* query of each
SearchPages(matches, perPage) ==
  [page \in 0..((Len(matches) \div perPage) + 1) |->
     [Count |-> Len(matches), Rows |-> SearchSelect(matches, page, perPage)]]

\* ---- searchChairs ----------------------------------------------------------------
\* strings.Split(text, ","): the segments between the commas, one empty segment
\* for the empty text
RECURSIVE Split(_)
Split(text) ==
  IF \E k \in 1..Len(text) : text[k] = ","
  THEN LET k == CHOOSE k \in 1..Len(text) :
                  text[k] = "," /\ \A l \in 1..(k - 1) : text[l] # ","
       IN <<SubSeq(text, 1, k - 1)>> \o Split(SubSeq(text, k + 1, Len(text)))
  ELSE <<text>>

\* chairSearchCondition.Price and estateSearchCondition.Rent: the ranges whose
\* ids postChair and postEstate store as price_level and rent_level
chairSearchCondition ==
  [Price |-> [Ranges |->
     <<[ID |-> 0, Min |-> -1, Max |-> 3000], [ID |-> 1, Min |-> 3000, Max |-> 6000],
       [ID |-> 2, Min |-> 6000, Max |-> 9000], [ID |-> 3, Min |-> 9000, Max |-> 12000],
       [ID |-> 4, Min |-> 12000, Max |-> 15000], [ID |-> 5, Min |-> 15000, Max |-> -1]>>]]

estateSearchCondition ==
  [Rent |-> [Ranges |->
     <<[ID |-> 0, Min |-> -1, Max |-> 50000], [ID |-> 1, Min |-> 50000, Max |-> 100000],
       [ID |-> 2, Min |-> 100000, Max |-> 150000], [ID |-> 3, Min |-> 150000, Max |-> -1]>>]]

\* the conditions searchChairs collects from priceRangeId and features (the
\* other range ids, kind and color are collected as priceRangeId is): err when
\* getRange fails, price the level asked for if one is, features the segments
\* of the parameter, n = len(conditions)
SearchChairsConditions(request) ==
  LET byPrice == request.priceRangeId # <<>>
      chairPrice == getRange(chairSearchCondition.Price, request.priceRangeId)
      segments == IF request.features # <<>> THEN Split(request.features) ELSE <<>>
  IN [err |-> byPrice /\ chairPrice.err,
      price |-> IF byPrice /\ ~chairPrice.err THEN <<chairPrice.range.ID>> ELSE <<>>,
      features |-> segments,
      n |-> (IF byPrice THEN 1 ELSE 0) + Len(segments)]

\* the returns with http.StatusBadRequest: a range id getRange rejects,
\* len(conditions) == 0, a page or a perPage strconv.Atoi rejects
SearchChairsInvalid(request) ==
  \/ SearchChairsConditions(request).err
  \/ SearchChairsConditions(request).n = 0
  \/ Atoi(request.page).err
  \/ Atoi(request.perPage).err

\* the condition that is appended without the stock
InStockOrNot(row) == TRUE

\* conditions = append(conditions, "stock > 0")
InStock(row) == row.stock > 0

\* the rows of chair that meet the conditions joined by AND, listed by id (the
\* rows drawn have one popularity)
ChairMatches(c, request) ==
  LET conds == SearchChairsConditions(request)
      ids == ById({i \in ChairIds :
                     /\ c[i].present
                     /\ conds.price # <<>> => PriceLevel(c[i].price) = conds.price[1]
                     /\ ChairFeatureConditions(JoinComma(c[i].features), conds.features)
                     /\ InStock(c[i])})
  IN [k \in 1..Len(ids) |-> Row(c, ids[k])]

NoChairs == [Chairs |-> <<>>, Count |-> 0]

\* the answer to a search of which a query failed, answered as a bad request
SearchFailedAsBadRequest(answer) == [answer EXCEPT !.status = 400]

\* the answer to a search of which a query failed:
\* c.NoContent(http.StatusInternalServerError)
SearchFailed(answer) == [answer EXCEPT !.status = 500]

\* one of the returns with 400, all of them before the first query
SearchChairsBadRequest(p, request) ==
  /\ npc[p] = "idle"
  /\ enreq < MaxReqs
  /\ SearchChairsInvalid(request)
  /\ enreq' = enreq + 1
  /\ npc' = npc
  /\ nz' = nz
  /\ ndone' = [name |-> "searchChairs", status |-> 400, request |-> request,
               queries |-> nz[p].queries, store |-> chair, re |-> NoChairs]
  /\ UNCHANGED <<estate, estateFeature, cachedEstates, chairVars, call>>

\* db.Get(&res.Count, countQuery+searchCondition, params...)
SearchChairsCount(p, request) ==
  /\ npc[p] = "idle"
  /\ enreq < MaxReqs
  /\ ~SearchChairsInvalid(request)
  /\ enreq' = enreq + 1
  /\ npc' = [npc EXCEPT ![p] = "chairSelect"]
  /\ nz' = [nz EXCEPT ![p] =
              [NoLocals EXCEPT !.request = request,
                               !.page = Atoi(request.page).n,
                               !.perPage = Atoi(request.perPage).n,
                               !.Count = Len(ChairMatches(chair, request)),
                               !.queries = 1]]
  /\ ndone' = NoDone
  /\ UNCHANGED <<estate, estateFeature, cachedEstates, chairVars, call>>

\* the count query fails: 500
SearchChairsCountFail(p, request) ==
  /\ npc[p] = "idle"
  /\ enreq < MaxReqs
  /\ ~SearchChairsInvalid(request)
  /\ enreq' = enreq + 1
  /\ npc' = npc
  /\ nz' = nz
  /\ ndone' = SearchFailed([name |-> "searchChairs", status |-> 0,
                            request |-> request, queries |-> nz[p].queries + 1,
                            store |-> chair, re |-> NoChairs])
  /\ UNCHANGED <<estate, estateFeature, cachedEstates, chairVars, call>>

\* db.Select(&chairs, searchQuery+searchCondition+limitOffset, params...), which
\* the store runs when LIMIT and OFFSET are not negative; res.Chairs = chairs; 200
SearchChairsSelect(p) ==
  /\ npc[p] = "chairSelect"
  /\ nz[p].perPage >= 0
  /\ Offset(nz[p].page, nz[p].perPage) >= 0
  /\ npc' = [npc EXCEPT ![p] = "idle"]
  /\ nz' = [nz EXCEPT ![p] = NoLocals]
  /\ ndone' = [name |-> "searchChairs", status |-> 200, request |-> nz[p].request,
               queries |-> nz[p].queries + 1, store |-> chair,
               re |-> [Count |-> nz[p].Count,
                       Chairs |-> LimitOffset(ChairMatches(chair, nz[p].request),
                                              nz[p].perPage,
                                              Offset(nz[p].page, nz[p].perPage))]]
  /\ UNCHANGED <<estate, estateFeature, cachedEstates, enreq, chairVars, call>>

\* the search query fails, as it does with a negative LIMIT or OFFSET: 500
SearchChairsSelectFail(p) ==
  /\ npc[p] = "chairSelect"
  /\ npc' = [npc EXCEPT ![p] = "idle"]
  /\ nz' = [nz EXCEPT ![p] = NoLocals]
  /\ ndone' = SearchFailed([name |-> "searchChairs", status |-> 0,
                            request |-> nz[p].request,
                            queries |-> nz[p].queries + 1,
                            store |-> chair, re |-> NoChairs])
  /\ UNCHANGED <<estate, estateFeature, cachedEstates, enreq, chairVars, call>>

\* searchEstates: getRange rejects rentRangeId: 400
SearchEstatesBadRange(p, rentRangeId) ==
  /\ npc[p] = "idle"
  /\ enreq < MaxReqs
  /\ rentRangeId # <<>>
  /\ getRange(estateSearchCondition.Rent, rentRangeId).err
  /\ enreq' = enreq + 1
  /\ npc' = npc
  /\ nz' = nz
  /\ ndone' = [name |-> "searchEstates", status |-> 400, features |-> NoFeatures,
               rentRangeId |-> rentRangeId, queries |-> nz[p].queries]
  /\ UNCHANGED <<estate, estateFeature, cachedEstates, chairVars, call>>

\* ---- getChairDetail, getEstateDetail, postEstateRequestDocument ---------------------
\* the check that lets a chair without stock pass
SoldOutBelow(stock) == stock < 0

\* else if chair.Stock <= 0
SoldOutDetail(stock) == stock <= 0

\* a request with one query of one row ends
DetailEnd(p, name, id, status, queries) ==
  /\ npc[p] = "idle"
  /\ enreq < MaxReqs
  /\ enreq' = enreq + 1
  /\ npc' = npc
  /\ nz' = nz
  /\ ndone' = [name |-> name, id |-> id, status |-> status, queries |-> queries]

\* db.Get(&chair, query, id): sql.ErrNoRows: 404; chair.Stock <= 0: 404; else 200
GetChairDetail(p, id) ==
  /\ DetailEnd(p, "getChairDetail", id,
               IF ~chair[id].present THEN 404
               ELSE IF SoldOutDetail(chair[id].stock) THEN 404
               ELSE 200, 1)
  /\ UNCHANGED <<estate, estateFeature, cachedEstates, chairVars, call>>

\* db.Get fails otherwise: 500
GetChairDetailFail(p, id) ==
  /\ DetailEnd(p, "getChairDetail", id, 500, 1)
  /\ UNCHANGED <<estate, estateFeature, cachedEstates, chairVars, call>>

\* db.Get(&estate, "SELECT * FROM estate WHERE id = ?", id): sql.ErrNoRows: 404;
\* else 200
GetEstateDetail(p, id) ==
  /\ DetailEnd(p, "getEstateDetail", id, IF ~estate[id].present THEN 404 ELSE 200, 1)
  /\ UNCHANGED <<estate, estateFeature, cachedEstates, chairVars, call>>

\* db.Get fails otherwise: 500
GetEstateDetailFail(p, id) ==
  /\ DetailEnd(p, "getEstateDetail", id, 500, 1)
  /\ UNCHANGED <<estate, estateFeature, cachedEstates, chairVars, call>>

\* the body binds and holds an email; db.Get(&estate, query, id): sql.ErrNoRows:
\* 404; else 200
PostEstateRequestDocument(p, id) ==
  /\ DetailEnd(p, "postEstateRequestDocument", id,
               IF ~estate[id].present THEN 404 ELSE 200, 1)
  /\ UNCHANGED <<estate, estateFeature, cachedEstates, chairVars, call>>

\* db.Get fails otherwise: 500
PostEstateRequestDocumentFail(p, id) ==
  /\ DetailEnd(p, "postEstateRequestDocument", id, 500, 1)
  /\ UNCHANGED <<estate, estateFeature, cachedEstates, chairVars, call>>

\* ---- searches and requests of one item, over a store of chairs ---------------------
\* the rows of chair: in the first or the second price range, sold out or in
\* stock, with the tags a and b
ReadRows ==
  [present : {TRUE}, price : {1, 3000}, stock : {0, MaxStock},
   features : {<< <<"a">>, <<"b">> >>}]

\* the requests of searchChairs: with and without a range id and tags, and
\* with a page and a page size of each kind
ChairRequests ==
  {[priceRangeId |-> r, features |-> f, page |-> <<"0">>, perPage |-> <<"2">>] :
     r \in {<<>>, <<"0">>, <<"9">>}, f \in {<<>>, <<"a">>, <<",">>}}
  \cup {[priceRangeId |-> <<"0">>, features |-> <<>>, page |-> pg, perPage |-> pp] :
          pg \in {<<"0">>, <<"-", "1">>}, pp \in {<<"0">>, <<"-", "1">>, <<"x">>}}

\* the stores of estates: the estates of S, each with the feature "A" and its
\* row of estate_feature
ReadEstates(S) == [i \in EstateIds |-> IF i \in S THEN EstateAt(i, 5, 5, 1) ELSE NoEstate]

ReadEstateFeatures(S) == {<<i, estateFeatureMap("A")>> : i \in S}

InitRead ==
  /\ chair \in [ChairIds -> {NoRow} \cup ReadRows]
  /\ rowLock = [i \in ChairIds |-> 0]
  /\ lowPricedChair = nil
  /\ snapObj = [o \in ObjIds |-> <<>>]
  /\ rwReaders = 0
  /\ rwLost = FALSE
  /\ rwPending = FALSE
  /\ rwHeld = FALSE
  /\ pc = [p \in Procs |-> "idle"]
  /\ op = [p \in Procs |-> NoOp]
  /\ chairs = [p \in Procs |-> nil]
  /\ target = [p \in Procs |-> -1]
  /\ currentPrice = [p \in Procs |-> 0]
  /\ holds = [p \in Procs |-> "none"]
  /\ nreq = MaxReqs - 1
  /\ done = NoDone
  /\ initStock = [i \in ChairIds |-> chair[i].stock]
  /\ commits = [i \in ChairIds |-> 0]
  /\ tally = [i \in ChairIds |-> NoTally]
  /\ hist = [p \in Procs |-> NoHist]
  /\ lastGet = None
  /\ \E S \in {{}, {1}, {1, MaxEstates}} :
       /\ estate = ReadEstates(S)
       /\ estateFeature = ReadEstateFeatures(S)
  /\ cachedEstates = [i \in EstateIds |-> NoEstate]
  /\ npc = [p \in Procs |-> "idle"]
  /\ nz = [p \in Procs |-> NoLocals]
  /\ ndone = NoDone
  /\ enreq = MaxReqs - 1
  /\ call = NoCall

NextRead ==
  \E p \in Procs :
    \/ \E request \in ChairRequests : SearchChairsBadRequest(p, request)
    \/ \E request \in ChairRequests : SearchChairsCount(p, request)
    \/ \E request \in ChairRequests : SearchChairsCountFail(p, request)
    \/ SearchChairsSelect(p)
    \/ SearchChairsSelectFail(p)
    \/ \E id \in ChairIds : GetChairDetail(p, id)
    \/ \E id \in ChairIds : GetChairDetailFail(p, id)
    \/ \E id \in ChairIds : BuyNotFound(p, id)
    \/ \E id \in ChairIds : BuySelectFail(p, id)
    \/ \E id \in EstateIds : GetEstateDetail(p, id)
    \/ \E id \in EstateIds : GetEstateDetailFail(p, id)
    \/ \E id \in EstateIds : PostEstateRequestDocument(p, id)
    \/ \E id \in EstateIds : PostEstateRequestDocumentFail(p, id)
    \/ SearchEstatesBadRequest(p)
    \/ \E rentRangeId \in {<<"4">>, <<"x">>} : SearchEstatesBadRange(p, rentRangeId)
    \/ \E features \in {<<"A">>, <<"", "">>}, perPage \in {0, 1} :
         SearchEstatesCount(p, features, 0, perPage)
    \/ \E features \in {<<"A">>, <<"", "">>} : SearchEstatesCountFail(p, features)
    \/ SearchEstatesSelect(p)
    \/ SearchEstatesSelectFail(p)
    \/ NzBadRequest(p)

SpecRead == InitRead /\ [][NextRead]_vars

\* ---- the functions, applied to inputs ------------------------------------------
Points == {Coordinate(la, lo) : la \in Coords, lo \in Coords}

\* the non-empty vertex sequences of up to MaxVertices vertices
VertexSeqs == UNION {[1..n -> Points] : n \in 1..MaxVertices}

\* the square, started at each of its vertices and walked either way
Squares ==
  {[k \in 1..4 |-> Square[((k - 1 + r) % 4) + 1] ] : r \in 0..3}
    \cup {[k \in 1..4 |-> Square[((r - k + 8) % 4) + 1] ] : r \in 0..3}

\* k estates in the polygon, listed by id (up or down), the popularity of each
\* drawn from its id
Matches(k, m, up) ==
  [j \in 1..k |->
     LET i == IF up THEN j ELSE k + 1 - j
     IN EstateAt(i, 5, 5, (i * m) % 3)]

\* the tags, and the lists of one or two different tags, of a chair or a request
TagNames == {<<"a">>, <<"b">>, <<"a", "b">>}
TagLists == {<<t>> : t \in TagNames} \cup {l \in [1..2 -> TagNames] : l[1] # l[2]}

\* the sizes of the match sets and of the pages
MatchCounts == {0, 5, 20, 25, 41}
PageSizes == {1, 7, 20}

\* the texts of a range id, each with the integer it spells if it spells one
RangeIdTexts ==
  {[text |-> <<>>, int |-> FALSE, value |-> 0],
   [text |-> <<"x">>, int |-> FALSE, value |-> 0],
   [text |-> <<"1", "x">>, int |-> FALSE, value |-> 0],
   [text |-> <<"-">>, int |-> FALSE, value |-> 0],
   [text |-> <<"1", ".", "0">>, int |-> FALSE, value |-> 0],
   [text |-> <<"-", "1">>, int |-> TRUE, value |-> -1],
   [text |-> <<"0">>, int |-> TRUE, value |-> 0],
   [text |-> <<"+", "1">>, int |-> TRUE, value |-> 1],
   [text |-> <<"2">>, int |-> TRUE, value |-> 2],
   [text |-> <<"3">>, int |-> TRUE, value |-> 3],
   [text |-> <<"4">>, int |-> TRUE, value |-> 4],
   [text |-> <<"1", "0">>, int |-> TRUE, value |-> 10]}

\* a configured list of ranges: the first n of four, -1 for no bound
SizeRanges ==
  <<[ID |-> 0, Min |-> -1, Max |-> 80], [ID |-> 1, Min |-> 80, Max |-> 110],
    [ID |-> 2, Min |-> 110, Max |-> 150], [ID |-> 3, Min |-> 150, Max |-> -1]>>
RangeConditions == {[Ranges |-> SubSeq(SizeRanges, 1, n)] : n \in 0..4}

\* the values of a size, a price and a rent: at, next to and far from the bounds
SizeValues == {-5, 0, 79, 80, 81, 109, 110, 111, 149, 150, 151, 1000}
PriceValues == {-1, 0, 2999, 3000, 5999, 6000, 8999, 9000, 11999, 12000, 14999,
                15000, 15001, 99999}
RentValues == {-1, 0, 49999, 50000, 99999, 100000, 149999, 150000, 150001}

Pending(fn, in) == [fn |-> fn, in |-> in, applied |-> FALSE, out |-> <<>>]

InitCall ==
  /\ ChairIdle
  /\ EstateIdle
  /\ \/ \E cs \in VertexSeqs : call = Pending("getBoundingBox", cs)
     \/ \E cs \in Squares \cup [1..3 -> {Square[k] : k \in 1..4}], pt \in Points :
          call = Pending("InPolygonIDs",
                         [coordinates |-> cs,
                          estatesInBoundingBox |->
                            <<EstateAt(1, pt.latitude, pt.longitude, 1)>>])
     \/ \E k \in 0..MaxMatches, m \in 0..2, up \in BOOLEAN :
          call = Pending("Respond", Matches(k, m, up))
     \/ \E tags \in TagLists, features \in TagLists :
          call = Pending("ChairFeatureConditions",
                         [tags |-> tags, text |-> JoinComma(tags),
                          features |-> features])
     \/ \E cond \in RangeConditions, id \in RangeIdTexts :
          call = Pending("getRange", [cond |-> cond, rangeID |-> id.text, id |-> id])
     \/ \E size \in SizeValues, price \in PriceValues, rent \in RentValues :
          call = Pending("Levels", [size |-> size, price |-> price, rent |-> rent])
     \/ \E k \in MatchCounts, m \in 0..2, up \in BOOLEAN, perPage \in PageSizes :
          call = Pending("SearchPages",
                         [matches |-> Matches(k, m, up), perPage |-> perPage])

ApplyGetBoundingBox ==
  /\ call.fn = "getBoundingBox"
  /\ ~call.applied
  /\ call' = [call EXCEPT !.applied = TRUE, !.out = getBoundingBox(call.in)]
  /\ UNCHANGED <<chairVars, estateVars>>

ApplyInPolygonIDs ==
  /\ call.fn = "InPolygonIDs"
  /\ ~call.applied
  /\ call' = [call EXCEPT !.applied = TRUE,
                          !.out = InPolygonIDs(call.in.coordinates,
                                               call.in.estatesInBoundingBox)]
  /\ UNCHANGED <<chairVars, estateVars>>

ApplyRespond ==
  /\ call.fn = "Respond"
  /\ ~call.applied
  /\ call' = [call EXCEPT !.applied = TRUE, !.out = Respond(call.in)]
  /\ UNCHANGED <<chairVars, estateVars>>

ApplyChairFeatureConditions ==
  /\ call.fn = "ChairFeatureConditions"
  /\ ~call.applied
  /\ call' = [call EXCEPT !.applied = TRUE,
                          !.out = ChairFeatureConditions(call.in.text, call.in.features)]
  /\ UNCHANGED <<chairVars, estateVars>>

ApplySearchPages ==
  /\ call.fn = "SearchPages"
  /\ ~call.applied
  /\ call' = [call EXCEPT !.applied = TRUE,
                          !.out = SearchPages(call.in.matches, call.in.perPage)]
  /\ UNCHANGED <<chairVars, estateVars>>

ApplyGetRange ==
  /\ call.fn = "getRange"
  /\ ~call.applied
  /\ call' = [call EXCEPT !.applied = TRUE,
                          !.out = getRange(call.in.cond, call.in.rangeID)]
  /\ UNCHANGED <<chairVars, estateVars>>

ApplyLevels ==
  /\ call.fn = "Levels"
  /\ ~call.applied
  /\ call' = [call EXCEPT !.applied = TRUE, !.out = Levels(call.in)]
  /\ UNCHANGED <<chairVars, estateVars>>

NextCall ==
  \/ ApplyGetRange
  \/ ApplyLevels
  \/ ApplyGetBoundingBox
  \/ ApplyInPolygonIDs
  \/ ApplyRespond
  \/ ApplyChairFeatureConditions
  \/ ApplySearchPages

SpecCall == InitCall /\ [][NextCall]_vars

\* ---- properties ---------------------------------------------------------------

\* C1: in every reachable state each chair's stock is >= 0, the purchases that
\* committed on it number its initial stock minus its current stock, and no two
\* buyChair transactions on the same chair are between SELECT ... FOR UPDATE
\* and COMMIT at once (so two purchases of the last unit never both commit).
C1_StockNeverNegative ==
  /\ \A i \in ChairIds :
       chair[i].present =>
         /\ chair[i].stock >= 0
         /\ commits[i] = initStock[i] - chair[i].stock
  /\ \A p, q \in Procs :
       pc[p] = "buy_commit" /\ pc[q] = "buy_commit" /\ op[p].id = op[q].id => p = q

\* the last unit of a chair has been bought and a further buyChair on it has
\* been answered NotFound
C1_Witness ==
  \E i \in ChairIds :
    /\ chair[i].present /\ initStock[i] >= 1 /\ chair[i].stock = 0
    /\ commits[i] = initStock[i]
    /\ tally[i].notFound >= 1

\* C2: when the N >= 1 buyChair requests made on a chair of availability 1 have
\* all been answered (the store failing none of them), exactly one was answered
\* with success, the N - 1 others with NotFound, and the availability is 0;
\* whatever the snapshot was when they started.
C2_OneSuccess ==
  \A i \in ChairIds :
    LET n == tally[i].ok + tally[i].notFound + tally[i].storeFailure + tally[i].panic
    IN (/\ chair[i].present /\ initStock[i] = 1
        /\ \A p \in Procs : ~(op[p].name = "buy" /\ op[p].id = i)
        /\ n >= 1 /\ tally[i].storeFailure = 0)
       => /\ tally[i].ok = 1
          /\ tally[i].notFound = n - 1
          /\ chair[i].stock = 0

\* C3: in every state where no request is in flight and the snapshot is present,
\* the snapshot lists exactly the store's (up to Limit) cheapest chairs with
\* stock > 0, by price ascending then id ascending.
C3_SnapshotIsCheapest ==
  (lowPricedChair # nil /\ \A p \in Procs : pc[p] = "idle") =>
    LET want == SelectLowPriced(chair)
    IN /\ Len(Chairs) = Len(want)
       /\ \A k \in 1..Len(want) : Chairs[k].id = want[k].id

\* C4: a published snapshot object is never modified in place: in every step
\* that leaves the snapshot reference as it is, the object it refers to keeps
\* its entries.
C4_PublishBySwap ==
  [][(lowPricedChair # nil /\ lowPricedChair' = lowPricedChair)
       => snapObj'[lowPricedChair] = snapObj[lowPricedChair]]_vars

\* C5: no request holds lowPricedChairMutex, shared or exclusive, while one of
\* its store queries is in flight (getLowPricedChair's SELECT, buyChair's
\* transaction).
C5_NoLockAcrossQuery ==
  \A p \in Procs : pc[p] \in {"get_select", "buy_commit"} => holds[p] = "none"

\* C6: every step that writes the snapshot reference is taken by a request that
\* holds lowPricedChairMutex exclusively.
C6_WritesUnderLock ==
  [][lowPricedChair' # lowPricedChair
       => \E p \in Procs : pc'[p] # pc[p] /\ holds[p] = "exclusive"]_vars

\* C7: a getLowPricedChair that starts after one has returned a snapshot, with
\* no step of postChair or buyChair from that return to its own, queries the
\* store not once and returns that same snapshot.
C7_SecondGetIdentical ==
  (done.name = "get" /\ done.answer = "OK" /\ done.prior.present) =>
    (~done.queried /\ done.body = done.prior)

\* C8: when postChair has inserted its chair with no other request running,
\* and the snapshot at the insert was absent, empty, shorter than Limit, or had
\* a last entry at least as expensive as the chair, the request is answered
\* with success and the snapshot is absent afterwards.
C8_InsertInvalidates ==
  (done.name = "post" /\ done.committed /\ done.alone) =>
    LET b == done.before.chairs
    IN (\/ ~done.before.present
        \/ Len(b) < Limit
        \/ done.price <= b[Len(b)].price)
         => (done.answer = "Created" /\ lowPricedChair = nil)

C10_AllOrNothing ==
  (done.name = "buy" /\ done.answer # "OK") => ~done.committed

\* C11: a polygon search with k contained matches answers min(k, 50) of them,
\* sorted by popularity descending then id ascending, and reports as count the
\* number of items it returns; with 60 matches, 50 items and count 50.
C11_RankAndTruncate ==
  (call.fn = "Respond" /\ call.applied) =>
    LET k == Len(call.in)
        es == call.out.Estates
    IN /\ Len(es) = IF k < 50 THEN k ELSE 50
       /\ call.out.Count = Len(es)
       /\ \A j \in 1..Len(es) : \E l \in 1..k : call.in[l] = es[j]
       /\ \A j \in 1..(Len(es) - 1) :
            \/ es[j].popularity > es[j + 1].popularity
            \/ es[j].popularity = es[j + 1].popularity /\ es[j].id < es[j + 1].id
       /\ k = 60 => (Len(es) = 50 /\ call.out.Count = 50)

\* 60 matches of differing popularities were ranked and 50 returned
C11_Witness ==
  /\ call.fn = "Respond" /\ call.applied
  /\ Len(call.in) = 60
  /\ \E j, l \in 1..60 : call.in[j].popularity # call.in[l].popularity
  /\ Len(call.out.Estates) = 50

\* C12: every successful polygon search returns exactly the first 50, by
\* popularity descending and id ascending, of the estates of the store (as the
\* candidate query read it) that lie in the inclusive bounding box of the
\* vertices and pass the containment test: each returned item is the store's
\* record of such an estate, none is returned twice, and none that is left out
\* ranks before a returned one, whichever ids the cache served.
C12_ExactlyTheContained ==
  (ndone.name = "searchEstateNazotte" /\ ndone.status = 200) =>
    LET l == ndone.locals
        cs == l.coordinates
        store == l.atBox
        es == ndone.re.Estates
        InBox(i) ==
          /\ \E k \in 1..Len(cs) : cs[k].latitude <= store[i].latitude
          /\ \E k \in 1..Len(cs) : cs[k].latitude >= store[i].latitude
          /\ \E k \in 1..Len(cs) : cs[k].longitude <= store[i].longitude
          /\ \E k \in 1..Len(cs) : cs[k].longitude >= store[i].longitude
        contained ==
          {i \in EstateIds :
             /\ store[i].present
             /\ InBox(i)
             /\ Contains(cs, Coordinate(store[i].latitude, store[i].longitude))}
        returned == {es[j].id : j \in 1..Len(es)}
    IN /\ returned \subseteq contained
       /\ \A j \in 1..Len(es) : es[j] = store[es[j].id]
       /\ \A j, k \in 1..Len(es) : es[j].id = es[k].id => j = k
       /\ Len(es) = IF Cardinality(contained) < 50 THEN Cardinality(contained) ELSE 50
       /\ \A j \in 1..(Len(es) - 1) :
            \/ es[j].popularity > es[j + 1].popularity
            \/ es[j].popularity = es[j + 1].popularity /\ es[j].id < es[j + 1].id
       /\ \A i \in contained \ returned : \A j \in 1..Len(es) :
            \/ es[j].popularity > store[i].popularity
            \/ es[j].popularity = store[i].popularity /\ es[j].id < i

\* a search answered two estates, the more popular one first though its id is
\* the greater, one of them from the cache and the other from the store
C12_Witness ==
  /\ ndone.name = "searchEstateNazotte" /\ ndone.status = 200
  /\ Len(ndone.re.Estates) = 2
  /\ ndone.re.Estates[1].id > ndone.re.Estates[2].id
  /\ Len(ndone.locals.missingIDs) = 1
  /\ ndone.locals.atLookup # {}

\* C15: the cache only grows: an id that is a key of cachedEstates is a key of
\* it after every step of a search or an insertion.
C15_CacheOnlyGrows ==
  [][\A i \in EstateIds : cachedEstates[i].present => cachedEstates'[i].present]_vars

\* a search put a second entry into the cache and the entry an earlier search
\* had put is still there
C15_Witness ==
  /\ ndone.name = "searchEstateNazotte" /\ ndone.status = 200
  /\ ndone.locals.atLookup # {}
  /\ Len(ndone.locals.missingEstates) > 0
  /\ \A i \in ndone.locals.atLookup : cachedEstates[i].present
  /\ \E i \in EstateIds \ ndone.locals.atLookup : cachedEstates[i].present

\* C16: under every interleaving of polygon searches and estate insertions,
\* each cache entry is keyed by the id of the record it holds, and the record's
\* latitude and longitude are those of the store's row with that id.
C16_CacheAgreesWithStore ==
  \A i \in EstateIds :
    cachedEstates[i].present =>
      /\ cachedEstates[i].id = i
      /\ estate[i].present
      /\ cachedEstates[i].latitude = estate[i].latitude
      /\ cachedEstates[i].longitude = estate[i].longitude

\* an estate inserted after the program started is in the cache, next to
\* another entry
C16_Witness ==
  /\ \E i \in EstateIds \ {1, 2} : cachedEstates[i].present
  /\ \E i \in {1, 2} : cachedEstates[i].present

\* C17: a polygon search fetches from the store at most once, and then only
\* ids that are in the polygon and had no cache entry at the lookup; it does not
\* fetch when every id in the polygon had an entry; when it answers 200 every
\* id in the polygon has a cache entry.
C17_OneHydration ==
  /\ \A p \in Procs :
       /\ Len(nz[p].fetches) <= 1
       /\ \A f \in 1..Len(nz[p].fetches) : \A k \in 1..Len(nz[p].fetches[f]) :
            /\ nz[p].fetches[f][k] \notin nz[p].atLookup
            /\ \E j \in 1..Len(nz[p].estatesInPolygonIDs) :
                 nz[p].estatesInPolygonIDs[j] = nz[p].fetches[f][k]
  /\ ndone.name = "searchEstateNazotte" =>
       LET l == ndone.locals
           ids == {l.estatesInPolygonIDs[j] : j \in 1..Len(l.estatesInPolygonIDs)}
       IN /\ Len(l.fetches) <= 1
          /\ \A f \in 1..Len(l.fetches) :
               /\ Len(l.fetches[f]) > 0
               /\ \A k \in 1..Len(l.fetches[f]) :
                    l.fetches[f][k] \in ids \ l.atLookup
          /\ ids \subseteq l.atLookup => Len(l.fetches) = 0
          /\ ndone.status = 200 => \A i \in ids : cachedEstates[i].present

\* a search of a polygon with two estates, one of them cached, fetched the other
\* one alone and answered
C17_Witness ==
  /\ ndone.name = "searchEstateNazotte" /\ ndone.status = 200
  /\ Len(ndone.locals.estatesInPolygonIDs) = 2
  /\ Len(ndone.locals.fetches) = 1
  /\ Len(ndone.locals.fetches[1]) = 1
  /\ ndone.locals.fetches[1][1] \notin ndone.locals.atLookup

\* C13: the containment test is the crossing-number test over the polygon that
\* joins each vertex to the next and the last vertex to the first: an estate is
\* kept iff an odd number of these edges is crossed; of the polygon (0,0),
\* (0,10), (10,10), (10,0) the point (5,5) is contained and (20,20) is not.
C13_CrossingNumber ==
  (call.fn = "InPolygonIDs" /\ call.applied) =>
    LET cs == call.in.coordinates
        e == call.in.estatesInBoundingBox[1]
        pt == Coordinate(e.latitude, e.longitude)
        n == Len(cs)
        crossed == {k \in 1..n : Crosses(pt, cs[k], cs[(k % n) + 1])}
    IN /\ call.out = IF Cardinality(crossed) % 2 = 1 THEN <<e.id>> ELSE <<>>
       /\ (cs = Square /\ pt = Coordinate(5, 5)) => call.out = <<e.id>>
       /\ (cs = Square /\ pt = Coordinate(20, 20)) => call.out = <<>>

\* the estate at (5,5) was found in the square, whose only crossed edge is not
\* the closing one
C13_Witness ==
  /\ call.fn = "InPolygonIDs" /\ call.applied
  /\ call.in.coordinates = Square
  /\ call.in.estatesInBoundingBox[1].latitude = 5
  /\ call.in.estatesInBoundingBox[1].longitude = 5
  /\ call.out = <<1>>

\* C14: of every non-empty vertex sequence getBoundingBox returns the corner of
\* the least latitude and longitude and the corner of the greatest: every
\* vertex lies in the closed rectangle and each of the four bounds is the
\* coordinate of some vertex.
C14_TightBox ==
  (call.fn = "getBoundingBox" /\ call.applied) =>
    LET cs == call.in
        tl == call.out.TopLeftCorner
        br == call.out.BottomRightCorner
    IN /\ \A k \in 1..Len(cs) :
            /\ tl.latitude <= cs[k].latitude /\ cs[k].latitude <= br.latitude
            /\ tl.longitude <= cs[k].longitude /\ cs[k].longitude <= br.longitude
       /\ \E k \in 1..Len(cs) : cs[k].latitude = tl.latitude
       /\ \E k \in 1..Len(cs) : cs[k].longitude = tl.longitude
       /\ \E k \in 1..Len(cs) : cs[k].latitude = br.latitude
       /\ \E k \in 1..Len(cs) : cs[k].longitude = br.longitude

\* a box of three vertices, none of whose four bounds is a coordinate of the
\* first vertex
C14_Witness ==
  /\ call.fn = "getBoundingBox" /\ call.applied
  /\ Len(call.in) = 3
  /\ call.out.TopLeftCorner.latitude < call.in[1].latitude
  /\ call.out.TopLeftCorner.longitude < call.in[1].longitude
  /\ call.out.BottomRightCorner.latitude > call.in[1].latitude
  /\ call.out.BottomRightCorner.longitude > call.in[1].longitude

\* C18: searchEstates with a tag filter selects an estate iff the estate's tag
\* set is a superset of the requested tags, also when the list holds an unknown
\* tag name or the same tag twice; an estate tagged A, B, C is selected by the
\* filter A, B and is not selected by A, D.
C18_SupersetFilter ==
  (/\ ndone.name = "searchEstates" /\ ndone.status = 200
   /\ ndone.page = 0 /\ ndone.perPage >= MaxEstates) =>
    LET Tags(fs) == {fs[k] : k \in 1..Len(fs)} \ {""}
        es == ndone.re.Estates
    IN \A i \in EstateIds :
         ndone.store[i].present =>
           ((\E j \in 1..Len(es) : es[j].id = i)
              <=> Tags(ndone.features) \subseteq Tags(ndone.store[i].features))

\* C19: searchChairs with a tag filter selects an available chair iff the
\* chair's tag set is a superset of the requested tags, by membership in the
\* tag set and not by occurrence in the stored text: a requested tag that is a
\* proper part of one of the chair's tags and is not one of them does not match.
C19_TagMembership ==
  (call.fn = "ChairFeatureConditions" /\ call.applied) =>
    LET Set(l) == {l[k] : k \in 1..Len(l)}
    IN call.out <=> Set(call.in.features) \subseteq Set(call.in.tags)

\* C20: for every page size of at least 1 the pages 0, 1, 2, ... of a search
\* are disjoint slices in the order popularity descending, id ascending, whose
\* concatenation is the whole match set in that order, and each page reports
\* the size of the match set as its count; of 25 matches the pages (0, 20) and
\* (1, 20) hold 20 and 5 items and both report 25.
C20_PagesPartition ==
  (call.fn = "SearchPages" /\ call.applied) =>
    LET matches == call.in.matches
        s == call.in.perPage
        n == Len(matches)
        pages == call.out
        P == DOMAIN pages
        Before(a, b) ==
          \/ a.popularity > b.popularity
          \/ a.popularity = b.popularity /\ a.id < b.id
        Left(p) == IF n - p * s < 0 THEN 0 ELSE n - p * s
    IN /\ \A p \in P : pages[p].Count = n
       /\ \A p \in P : Len(pages[p].Rows) = IF Left(p) < s THEN Left(p) ELSE s
       /\ \A p \in P : \A j \in 1..(Len(pages[p].Rows) - 1) :
            Before(pages[p].Rows[j], pages[p].Rows[j + 1])
       /\ \A p, q \in P : p < q =>
            \A j \in 1..Len(pages[p].Rows), l \in 1..Len(pages[q].Rows) :
              Before(pages[p].Rows[j], pages[q].Rows[l])
       /\ {matches[j] : j \in 1..n}
            = UNION {{pages[p].Rows[j] : j \in 1..Len(pages[p].Rows)} : p \in P}
       /\ (n = 25 /\ s = 20) =>
            /\ Len(pages[0].Rows) = 20 /\ Len(pages[1].Rows) = 5
            /\ pages[0].Count = 25 /\ pages[1].Count = 25

\* 25 matches of different popularities listed in pages of 20: 20 and 5 items
C20_Witness ==
  /\ call.fn = "SearchPages" /\ call.applied
  /\ Len(call.in.matches) = 25
  /\ call.in.perPage = 20
  /\ \E j, l \in 1..25 : call.in.matches[j].popularity # call.in.matches[l].popularity
  /\ Len(call.out[0].Rows) = 20
  /\ Len(call.out[1].Rows) = 5
  /\ call.out[1].Count = 25

\* C24: getRange fails exactly when the requested id is not an integer, is
\* negative or is not below the number of configured ranges; otherwise it
\* returns the range at index requestedId of the configured list; the list is
\* as it was.
C24_GetRange ==
  (call.fn = "getRange" /\ call.applied) =>
    LET id == call.in.id
        ranges == call.in.cond.Ranges
        bad == ~id.int \/ id.value < 0 \/ id.value >= Len(ranges)
    IN /\ ~call.out.panic
       /\ call.out.err <=> bad
       /\ ~bad => call.out.range = ranges[id.value + 1]
       /\ call.out.cond = call.in.cond

\* the id "+1" of a list of two ranges returned the second range, and its ID
C24_Witness ==
  /\ call.fn = "getRange" /\ call.applied
  /\ call.in.rangeID = <<"+", "1">>
  /\ Len(call.in.cond.Ranges) = 2
  /\ ~call.out.err
  /\ call.out.range.ID = 1

\* C25: at ingestion the stored level of every integer value is the id of the
\* one range [min, max) that holds it, and never -1 as the ranges cover every
\* integer: sizes by 80, 110, 150 into 0..3, chair prices by 3000, 6000, 9000,
\* 12000, 15000 into 0..5, estate rents by 50000, 100000, 150000 into 0..3.
C25_LevelIsTheRange ==
  (call.fn = "Levels" /\ call.applied) =>
    LET Holds(bounds, k, v) ==
          /\ k = 0 \/ bounds[k] <= v
          /\ k = Len(bounds) \/ v < bounds[k + 1]
        TheRange(bounds, v, level) ==
          /\ level \in 0..Len(bounds)
          /\ Holds(bounds, level, v)
          /\ \A k \in 0..Len(bounds) : Holds(bounds, k, v) => k = level
    IN /\ TheRange(<<80, 110, 150>>, call.in.size, call.out.size)
       /\ TheRange(<<3000, 6000, 9000, 12000, 15000>>, call.in.price, call.out.price)
       /\ TheRange(<<50000, 100000, 150000>>, call.in.rent, call.out.rent)

\* the values on the first bound of the sizes, on the last bound of the prices
\* and just below the second bound of the rents have the levels 1, 5 and 1
C25_Witness ==
  /\ call.fn = "Levels" /\ call.applied
  /\ call.in.size = 80 /\ call.out.size = 1
  /\ call.in.price = 15000 /\ call.out.price = 5
  /\ call.in.rent = 99999 /\ call.out.rent = 1

\* C27: a polygon search with vertices, answered by the store, for which no
\* estate lies in the bounding box or none of those in the box passes the
\* containment test, answers 200 with no item and count 0, has asked the store
\* once and fetched nothing, and leaves the cache as it was.
C27_EmptyIsSuccess ==
  [][(/\ ndone'.name = "searchEstateNazotte"
      /\ ndone'.status # 500
      /\ Len(ndone'.locals.coordinates) > 0
      /\ LET cs == ndone'.locals.coordinates
             store == ndone'.locals.atBox
         IN \A i \in EstateIds :
              ~ /\ store[i].present
                /\ \E k \in 1..Len(cs) : cs[k].latitude <= store[i].latitude
                /\ \E k \in 1..Len(cs) : cs[k].latitude >= store[i].latitude
                /\ \E k \in 1..Len(cs) : cs[k].longitude <= store[i].longitude
                /\ \E k \in 1..Len(cs) : cs[k].longitude >= store[i].longitude
                /\ Contains(cs, Coordinate(store[i].latitude, store[i].longitude)))
     => /\ ndone'.status = 200
        /\ ndone'.re.Estates = <<>>
        /\ ndone'.re.Count = 0
        /\ ndone'.locals.fetches = <<>>
        /\ ndone'.locals.queries = 1
        /\ cachedEstates' = cachedEstates]_vars

\* a search whose bounding box holds an estate that is outside the polygon was
\* answered 200 with count 0 while the cache held an entry
C27_Witness ==
  /\ ndone.name = "searchEstateNazotte" /\ ndone.status = 200
  /\ ndone.locals.coordinates = Corner
  /\ ndone.re.Count = 0
  /\ \E i \in EstateIds : cachedEstates[i].present

\* C29: no polygon search holds cachedEstatesMutex, shared or exclusive, while
\* a query of its own is in flight or still to come before its next lock
\* statement: the shared lock is released before the fetch of the missing
\* estates starts and the exclusive lock is taken after the fetch has returned.
C29_NoLockAcrossFetch ==
  \A p \in Procs :
    /\ npc[p] \in {"lookup", "fetch", "put"} => nz[p].holds = "none"
    /\ nz[p].holds = "exclusive" => Len(nz[p].fetches) = 1 /\ npc[p] # "fetch"

\* a search is about to fetch the estates missing from the cache while another
\* search has fetched and is about to lock the cache
C29_Witness ==
  \E p, q \in Procs :
    /\ npc[p] = "fetch" /\ Len(nz[p].missingIDs) > 0
    /\ npc[q] = "put" /\ nz[q].queries = 2

\* C21: a searchChairs or searchEstates request that supplies no filter (no
\* range id, and a features parameter that is empty or holds nothing but
\* separators) is answered 400 without a query of the store, and no such
\* request is between its count query and its search query.
C21_ZeroFiltersBadInput ==
  /\ (ndone.name = "searchChairs"
        /\ ndone.request.priceRangeId = <<>>
        /\ \A k \in 1..Len(Split(ndone.request.features)) :
              Split(ndone.request.features)[k] = <<>>)
       => ndone.status = 400 /\ ndone.queries = 0
  /\ (ndone.name = "searchEstates"
        /\ "rentRangeId" \notin DOMAIN ndone
        /\ FeatureIds(ndone.features) = <<>>)
       => ndone.status = 400 /\ ndone.queries = 0
  /\ \A p \in Procs :
       npc[p] = "chairSelect"
         => \/ nz[p].request.priceRangeId # <<>>
            \/ \E k \in 1..Len(Split(nz[p].request.features)) :
                 Split(nz[p].request.features)[k] # <<>>

\* C22: a search request whose page size is below 1 or whose page is below 0
\* is answered 400 without a query of the store: it is not answered 500 or
\* 200, and it is never between its count query and its search query.
C22_PageBoundsBadInput ==
  /\ (ndone.name = "searchChairs"
        /\ ~Atoi(ndone.request.page).err /\ ~Atoi(ndone.request.perPage).err
        /\ (Atoi(ndone.request.perPage).n < 1 \/ Atoi(ndone.request.page).n < 0))
       => ndone.status = 400 /\ ndone.queries = 0
  /\ (ndone.name = "searchEstates" /\ "perPage" \in DOMAIN ndone
        /\ (ndone.perPage < 1 \/ ndone.page < 0))
       => ndone.status = 400 /\ ndone.queries = 0
  /\ \A p \in Procs :
       npc[p] \in {"chairSelect", "select"} => nz[p].perPage >= 1 /\ nz[p].page >= 0

\* C23: a step in which searchChairs, searchEstates or searchEstateNazotte
\* answers 400 ends a request that has made no query of the store, and it
\* leaves the tables, the snapshot of the low-priced chairs and the cache of
\* the estates as they were.
C23_BadInputBeforeStore ==
  [][(/\ enreq' = enreq + 1
      /\ ndone'.name \in {"searchChairs", "searchEstates", "searchEstateNazotte"}
      /\ ndone'.status = 400)
     => /\ IF ndone'.name = "searchEstateNazotte" THEN ndone'.locals.queries = 0
           ELSE ndone'.queries = 0
        /\ \A p \in Procs : npc[p] = "idle" => npc'[p] = "idle"
        /\ chair' = chair /\ estate' = estate /\ estateFeature' = estateFeature
        /\ lowPricedChair' = lowPricedChair /\ snapObj' = snapObj
        /\ cachedEstates' = cachedEstates]_vars

C23_Witness ==
  /\ ndone.name = "searchChairs"
  /\ ndone.status = 400
  /\ ndone.request.priceRangeId = <<"9">>
  /\ \E i \in ChairIds : chair[i].present /\ chair[i].stock > 0

\* C26: a step that ends a buyChair or getChairDetail request for a chair that
\* is not in the store or has stock 0, or a getEstateDetail or
\* postEstateRequestDocument request for an estate that is not in the store,
\* answers 404 whenever the store answered the query, and it leaves the
\* tables, the snapshot of the low-priced chairs and the cache of the estates
\* as they were.
C26_NotFound ==
  [][LET noChair(i) == ~chair[i].present \/ chair[i].stock = 0
         chairDetail == /\ enreq' = enreq + 1
                        /\ ndone'.name = "getChairDetail"
                        /\ noChair(ndone'.id)
         estateDetail == /\ enreq' = enreq + 1
                         /\ ndone'.name \in {"getEstateDetail", "postEstateRequestDocument"}
                         /\ ~estate[ndone'.id].present
         buy == /\ nreq' = nreq + 1
                /\ done'.name = "buy"
                /\ noChair(done'.id)
     IN /\ (chairDetail \/ estateDetail) /\ ndone'.status # 500 => ndone'.status = 404
        /\ buy /\ done'.answer # "StoreFailure" => done'.answer = "NotFound"
        /\ (chairDetail \/ estateDetail \/ buy)
             => /\ chair' = chair /\ estate' = estate /\ estateFeature' = estateFeature
                /\ lowPricedChair' = lowPricedChair /\ snapObj' = snapObj
                /\ cachedEstates' = cachedEstates]_vars

C26_Witness ==
  /\ ndone.name = "getChairDetail"
  /\ ndone.status = 404
  /\ chair[ndone.id].present
  /\ chair[ndone.id].stock = 0
  /\ done.name = "buy"
  /\ done.answer = "NotFound"

\* C28: every chair of a searchChairs response has stock above 0 in the store
\* the search query read, whatever the conditions, and the count of the
\* response counts no chair without stock; a searchEstates response counts
\* every estate of the store that has the features asked for.
C28_InStockOnly ==
  /\ (ndone.name = "searchChairs" /\ ndone.status = 200)
       => /\ \A k \in 1..Len(ndone.re.Chairs) :
               /\ ndone.store[ndone.re.Chairs[k].id].present
               /\ ndone.store[ndone.re.Chairs[k].id].stock > 0
               /\ ndone.re.Chairs[k].stock > 0
          /\ ndone.re.Count <= Cardinality({i \in ChairIds : ndone.store[i].present
                                                              /\ ndone.store[i].stock > 0})
  /\ (ndone.name = "searchEstates" /\ ndone.status = 200)
       => ndone.re.Count =
            Cardinality({i \in EstateIds :
                           /\ ndone.store[i].present
                           /\ \A k \in 1..Len(ndone.features) :
                                \E l \in 1..Len(ndone.store[i].features) :
                                  ndone.store[i].features[l] = ndone.features[k]})

C28_Witness ==
  /\ ndone.name = "searchChairs"
  /\ ndone.status = 200
  /\ ndone.request.features = <<"a">>
  /\ ndone.request.priceRangeId = <<>>
  /\ Len(ndone.re.Chairs) = 1
  /\ \E i \in ChairIds : ndone.store[i].present /\ ndone.store[i].stock = 0

\* C30: when postChair has inserted two chairs with no other request running,
\* the snapshot at the insert held a chair, and one of the two chairs, the
\* first or the last of the request, is no more expensive than the snapshot's
\* last entry, the snapshot is absent when the request has ended.
C30_EveryRowInvalidates ==
  (done.name = "post" /\ done.committed /\ done.alone
     /\ done.before.present /\ Len(done.before.chairs) > 0)
    => ((\E i \in DOMAIN chair \ SeedIds :
           /\ chair[i].present
           /\ chair[i].price <= done.before.chairs[Len(done.before.chairs)].price)
          => lowPricedChair = nil)

\* C31: no request ends while it holds lowPricedChairMutex, shared or
\* exclusive: the mutex counts no reader whose request is over, and it is
\* held exclusively only by a request that is still running.
C31_LockReleased ==
  /\ ~rwLost
  /\ rwHeld => \E p \in Procs : pc[p] # "idle" /\ holds[p] = "exclusive"

\* C32: whenever buyChair patches the snapshot, the entry it decrements is the
\* entry of the snapshot published at that moment whose id is the id of the
\* chair bought.
C32_PatchesItsChair ==
  [][\A p \in Procs :
       (pc[p] = "buy_patch" /\ pc'[p] = "idle" /\ done'.answer = "OK")
         => Chairs[target[p] + 1].id = op[p].id]_vars

\* C33: when no request is running, none has inserted a chair (the requests
\* that acted were getLowPricedChair and buyChair) and the snapshot is present,
\* the stock of each entry of the snapshot is the stock of that chair in the
\* store.
C33_CachedStockIsStored ==
  (/\ \A p \in Procs : pc[p] = "idle"
   /\ \A i \in ChairIds : chair[i].present => i \in SeedIds
   /\ lowPricedChair # nil)
    => \A k \in 1..Len(Chairs) : Chairs[k].stock = chair[Chairs[k].id].stock

\* C34: a getLowPricedChair that returns while the table chair is as
\* initialize loads it returns the cheapest chairs in stock of that table:
\* nothing of the snapshot dates from before the tables were loaded.
C34_FreshAfterInitialize ==
  (done.name = "get" /\ done.answer = "OK" /\ chair = SeededChairs)
    => done.body = [present |-> TRUE, chairs |-> SelectLowPriced(chair)]

\* C35: the response of a polygon search that answers 200 is the one the
\* handler computes from the store it queried and its polygon under every
\* content of cachedEstates that holds rows of that store: no entry, some of
\* the ids in the polygon, or all of them; items, order and count are the same.
C35_CacheIndependent ==
  (ndone.name = "searchEstateNazotte" /\ ndone.status = 200) =>
    LET l == ndone.locals
        ids == InPolygonIDs(l.coordinates,
                            BoxSelect(l.atBox, getBoundingBox(l.coordinates)))
        Served(cache) ==
          Respond(Cached(ids, cache) \o IdSelect(l.atBox, Missing(ids, cache)))
    IN \A S \in SUBSET EstateIds :
         ndone.re = Served([i \in EstateIds |-> IF i \in S THEN l.atBox[i] ELSE NoEstate])

\* a search found some of its estates in the cache, fetched the others and
\* answered all of them
C35_Witness ==
  /\ ndone.name = "searchEstateNazotte" /\ ndone.status = 200
  /\ Len(ndone.locals.missingEstates) >= 1
  /\ Len(ndone.locals.estatesInPolygon) > Len(ndone.locals.missingEstates)
  /\ ndone.re.Count = Len(ndone.locals.estatesInPolygon)

\* C36: postEstate is all-or-nothing: when it ends, either every record of
\* the request is stored, with exactly the rows of estate_feature that its
\* features name, or the tables are as they were before the request; and a
\* request whose records have fresh ids and name no feature is stored and
\* answered 201.
C36_AllOrNothing ==
  [][ndone'.name = "postEstate" =>
       LET records == ndone'.records
           Named(k) == {estateFeatureMap(records[k].features[j]) :
                          j \in {j \in 1..Len(records[k].features) :
                                   records[k].features[j] # ""}}
           Stored ==
             \A k \in 1..Len(records) :
               /\ ~estate[records[k].id].present
               /\ estate'[records[k].id].present
               /\ estate'[records[k].id].features = records[k].features
               /\ {r \in estateFeature' : r[1] = records[k].id}
                    = {<<records[k].id, f>> : f \in Named(k)}
       IN /\ \/ ndone'.status = 201 /\ Stored
             \/ ndone'.status # 201 /\ estate' = estate /\ estateFeature' = estateFeature
          /\ (/\ Len(records) > 0
              /\ \A k \in 1..Len(records) :
                   ~estate[records[k].id].present /\ Named(k) = {}
              /\ \A k, j \in 1..Len(records) : records[k].id = records[j].id => k = j)
               => ndone'.status = 201 /\ Stored]_vars
====
